---- MODULE Spec2Model ----
(***************************************************************************)
(* Gauge controller (contracts/gauge_controller): gauges carry a weight    *)
(* (bias, slope) that decays linearly; voters allocate a ratio of their    *)
(* voting-escrow slope to gauges; the owner registers gauges and overrides *)
(* their bias.                                                             *)
(*                                                                         *)
(* Storage is a record  s  with the maps of state.rs.  Every handler is an *)
(* operator from (storage, inputs) to a result [err, st]: st is the        *)
(* storage as the handler has written it when it returns.                  *)
(*                                                                         *)
(* Numbers.  Uint128 values are naturals up to MaxUint128; a Decimal is    *)
(* the natural number of its atomics, DecimalFractional atomics making 1.  *)
(***************************************************************************)
EXTENDS Integers, Sequences, FiniteSets, TLC

\* the six maps of state.rs, the time of the current block, and the number of
\* calls executed so far; twin is the storage of a second run of the contract,
\* phase and first_vote tell how far the two runs are (SpecRevote)
VARIABLES config, gauge_addr, gauge_weight, slope_changes, user_votes, user_ratio,
          block_time, calls,
          twin, phase, first_vote

vars == <<config, gauge_addr, gauge_weight, slope_changes, user_votes, user_ratio,
          block_time, calls, twin, phase, first_vote>>

-----------------------------------------------------------------------------
(* Bounds of the model *)

\* periods (checkpoint keys, unlock periods, schedule keys) range over
\* 0..MaxPeriod; blocks are produced while their period is below MaxPeriod
MaxPeriod == 2
\* number of successful calls in a run
MaxCalls == 3
\* atomics per unit of a Decimal (10^18 in cosmwasm_std)
DecimalFractional == 4
\* largest Uint128 value (2^128 - 1 in cosmwasm_std)
MaxUint128 == 50000

\* ratio is in basis points
MaxRatio == 10000

Periods == 0..MaxPeriod
Senders == {"owner", "user_1"}
GaugeAddrs == {"gauge_addr_1", "gauge_addr_2"}
Ratios == {0, 5000, MaxRatio, MaxRatio + 1}
Weights == {0, MaxUint128}
FullSlopes == {2, MaxUint128}
PeriodDurations == {1, 2}
VoteDelays == {0, 1}
InitVoteDelays == {1}

-----------------------------------------------------------------------------
(* Option<T>: None is the empty sequence, Some(x) the sequence <<x>>. *)

None == <<>>
Some(x) == <<x>>
unwrap(o) == o[1]
unwrap_or(o, d) == IF o = None THEN d ELSE o[1]

Ok(s) == [err |-> "Ok", st |-> s]
Err(e, s) == [err |-> e, st |-> s]

SetMax(S) == CHOOSE x \in S : \A y \in S : y <= x

RECURSIVE SumOver(_, _)
SumOver(S, f) ==
  IF S = {} THEN 0
  ELSE LET x == CHOOSE y \in S : TRUE IN f[x] + SumOver(S \ {x}, f)

Store == [config |-> config, gauge_addr |-> gauge_addr, gauge_weight |-> gauge_weight,
          slope_changes |-> slope_changes, user_votes |-> user_votes,
          user_ratio |-> user_ratio]

-----------------------------------------------------------------------------
(* utils: period clock and fixed-point arithmetic *)

get_period(time, period_duration) == time \div period_duration

\* Decimal::from_ratio: numerator / denominator in atomics, rounded down
from_ratio(numerator, denominator) == (numerator * DecimalFractional) \div denominator

\* DecimalRoundedCheckedMul: Decimal * u64 as a Uint128, rounded half up
rounded_mul(dec, other) ==
  LET n == dec * other
      q == n \div DecimalFractional
      r == n % DecimalFractional
  IN IF 2 * r >= DecimalFractional THEN q + 1 ELSE q

saturating_sub(a, b) == IF a > b THEN a - b ELSE 0

-----------------------------------------------------------------------------
(* utils: checkpoint series and slope-change schedule of a gauge *)

\* the periods at which addr has a stored checkpoint
checkpoint_periods(s, addr) == {p \in Periods : s.gauge_weight[addr][p] # None}

\* Option<(period, GaugeWeight)>: the checkpoint with the largest period
fetch_latest_checkpoint(s, addr) ==
  IF checkpoint_periods(s, addr) = {} THEN None
  ELSE LET L == SetMax(checkpoint_periods(s, addr))
       IN Some([period |-> L, weight |-> unwrap(s.gauge_weight[addr][L])])

check_if_exists(s, addr) == fetch_latest_checkpoint(s, addr) # None

\* decay_step that takes the scheduled reduction off the slope before the decay
decay_step_slope_first(weight, sched, old_period, p) ==
  [bias |-> saturating_sub(weight.bias,
                           rounded_mul(saturating_sub(weight.slope, sched[p]),
                                       p - old_period)),
   slope |-> saturating_sub(weight.slope, sched[p])]

\* One decay step from old_period to p: the bias loses slope * dt (floored at
\* zero), then the slope loses the reduction scheduled at p (floored at zero).
decay_step(weight, sched, old_period, p) ==
  [bias |-> saturating_sub(weight.bias, rounded_mul(weight.slope, p - old_period)),
   slope |-> saturating_sub(weight.slope, sched[p])]

\* Advance a series whose latest point is at old_period up to target, looking
\* at periods p, p+1, ...: a point is materialized at every period that has a
\* scheduled slope change and at target.
RECURSIVE catch_up(_, _, _, _, _)
catch_up(series, sched, old_period, p, target) ==
  IF p > target THEN series
  ELSE IF sched[p] # 0 \/ p = target
       THEN catch_up([series EXCEPT ![p] =
                        Some(decay_step(unwrap(series[old_period]), sched, old_period, p))],
                     sched, p, p + 1, target)
       ELSE catch_up(series, sched, old_period, p + 1, target)

\* mutating checkpoint of addr at new_period
checkpoint_gauge(s, addr, new_period) ==
  LET last == fetch_latest_checkpoint(s, addr)
  IN IF last = None THEN Err("GaugeNotFound", s)
     ELSE IF unwrap(last).period > new_period THEN Err("TimestampError", s)
     ELSE IF unwrap(last).period = new_period THEN Ok(s)
     ELSE Ok([s EXCEPT !.gauge_weight[addr] =
                 catch_up(s.gauge_weight[addr], s.slope_changes[addr],
                          unwrap(last).period, unwrap(last).period + 1, new_period)])

schedule_slope_change(s, addr, slope, period) ==
  [s EXCEPT !.slope_changes[addr][period] = @ + slope]

cancel_scheduled_slope_change(s, addr, slope, period) ==
  [s EXCEPT !.slope_changes[addr][period] = saturating_sub(@, slope)]

\* non-mutating projection: the weight of addr at the period of time, computed
\* from the last checkpoint at or before that period
get_gauge_weight_at(s, addr, time) ==
  LET period == get_period(time, s.config.period_duration)
      before == {p \in checkpoint_periods(s, addr) : p <= period}
  IN IF before = {} THEN [err |-> "GaugeNotFound", value |-> 0]
     ELSE LET L == SetMax(before)
              series == catch_up(s.gauge_weight[addr], s.slope_changes[addr],
                                 L, L + 1, period)
          IN [err |-> "Ok", value |-> unwrap(series[period]).bias]

\* the registered gauge addresses
registered(s) == {s.gauge_addr[i] : i \in 1..Len(s.gauge_addr)}

\* total weight: the weights of the registered gauges at time, added up in id order
RECURSIVE total_from(_, _, _)
total_from(s, i, time) ==
  IF i > Len(s.gauge_addr) THEN [err |-> "Ok", value |-> 0]
  ELSE LET w == get_gauge_weight_at(s, s.gauge_addr[i], time)
           rest == total_from(s, i + 1, time)
       IN IF w.err # "Ok" THEN w
          ELSE IF rest.err # "Ok" THEN rest
          ELSE [err |-> "Ok", value |-> w.value + rest.value]

get_total_weight_at(s, time) == total_from(s, 1, time)

-----------------------------------------------------------------------------
(* contract: handlers *)

\* InstantiateMsg -> the storage after instantiate
instantiate(owner, period_duration, user_vote_delay) ==
  [config |-> [owner |-> owner, anchor_token |-> "anchor_token",
               anchor_voting_escrow |-> "anchor_voting_escrow",
               period_duration |-> period_duration,
               user_vote_delay |-> user_vote_delay],
   gauge_addr |-> <<>>,
   gauge_weight |-> [a \in GaugeAddrs |-> [p \in Periods |-> None]],
   slope_changes |-> [a \in GaugeAddrs |-> [p \in Periods |-> 0]],
   user_votes |-> [u \in Senders |-> [a \in GaugeAddrs |-> None]],
   user_ratio |-> [u \in Senders |-> None]]

validate_period_duration(period_duration) == period_duration > 0

\* an Option argument of UpdateConfig applied to the stored field
set_if_some(old, opt) == IF opt = None THEN old ELSE unwrap(opt)

\* update_config that does not take a new vote delay
update_config_keeping_delay(s, sender, owner, anchor_token, anchor_voting_escrow, user_vote_delay) ==
  IF sender # s.config.owner THEN Err("Unauthorized", s)
  ELSE Ok([s EXCEPT
             !.config.owner = set_if_some(@, owner),
             !.config.anchor_token = set_if_some(@, anchor_token),
             !.config.anchor_voting_escrow = set_if_some(@, anchor_voting_escrow)])

update_config(s, sender, owner, anchor_token, anchor_voting_escrow, user_vote_delay) ==
  IF sender # s.config.owner THEN Err("Unauthorized", s)
  ELSE Ok([s EXCEPT
             !.config.owner = set_if_some(@, owner),
             !.config.anchor_token = set_if_some(@, anchor_token),
             !.config.anchor_voting_escrow = set_if_some(@, anchor_voting_escrow),
             !.config.user_vote_delay = set_if_some(@, user_vote_delay)])

\* add_gauge that seeds the gauge with no weight
add_gauge_seeded_empty(s, time, sender, addr, weight) ==
  IF s.config.owner # sender THEN Err("Unauthorized", s)
  ELSE IF check_if_exists(s, addr) THEN Err("GaugeAlreadyExists", s)
  ELSE LET period == get_period(time, s.config.period_duration)
       IN Ok([s EXCEPT
                !.gauge_addr = Append(@, addr),
                !.gauge_weight[addr][period] = Some([bias |-> 0, slope |-> 0])])

\* add_gauge that does not look whether the gauge exists
add_gauge_reseeded(s, time, sender, addr, weight) ==
  IF s.config.owner # sender THEN Err("Unauthorized", s)
  ELSE LET period == get_period(time, s.config.period_duration)
       IN Ok([s EXCEPT
                !.gauge_addr = Append(@, addr),
                !.gauge_weight[addr][period] = Some([bias |-> weight, slope |-> 0])])

\* add_gauge that gives the new gauge id 0 and moves the others up
add_gauge_prepended(s, time, sender, addr, weight) ==
  IF s.config.owner # sender THEN Err("Unauthorized", s)
  ELSE IF check_if_exists(s, addr) THEN Err("GaugeAlreadyExists", s)
  ELSE LET period == get_period(time, s.config.period_duration)
       IN Ok([s EXCEPT
                !.gauge_addr = <<addr>> \o @,
                !.gauge_weight[addr][period] = Some([bias |-> weight, slope |-> 0])])

\* add_gauge that looks for the gauge before it looks at the sender
add_gauge_exists_first(s, time, sender, addr, weight) ==
  IF check_if_exists(s, addr) THEN Err("GaugeAlreadyExists", s)
  ELSE IF s.config.owner # sender THEN Err("Unauthorized", s)
  ELSE LET period == get_period(time, s.config.period_duration)
       IN Ok([s EXCEPT
                !.gauge_addr = Append(@, addr),
                !.gauge_weight[addr][period] = Some([bias |-> weight, slope |-> 0])])

\* add_gauge that seeds the checkpoint but does not record the address
add_gauge_unregistered(s, time, sender, addr, weight) ==
  IF s.config.owner # sender THEN Err("Unauthorized", s)
  ELSE IF check_if_exists(s, addr) THEN Err("GaugeAlreadyExists", s)
  ELSE LET period == get_period(time, s.config.period_duration)
       IN Ok([s EXCEPT
                !.gauge_weight[addr][period] = Some([bias |-> weight, slope |-> 0])])

add_gauge(s, time, sender, addr, weight) ==
  IF s.config.owner # sender THEN Err("Unauthorized", s)
  ELSE IF check_if_exists(s, addr) THEN Err("GaugeAlreadyExists", s)
  ELSE LET period == get_period(time, s.config.period_duration)
       IN Ok([s EXCEPT
                !.gauge_addr = Append(@, addr),
                !.gauge_weight[addr][period] = Some([bias |-> weight, slope |-> 0])])

\* change_gauge_weight that adds the weight to the bias
change_gauge_weight_added(s, time, sender, addr, weight) ==
  IF s.config.owner # sender THEN Err("Unauthorized", s)
  ELSE LET period == get_period(time, s.config.period_duration)
           c == checkpoint_gauge(s, addr, period)
       IN IF c.err # "Ok" THEN c
          ELSE LET latest_weight == unwrap(fetch_latest_checkpoint(c.st, addr)).weight
               IN Ok([c.st EXCEPT !.gauge_weight[addr][period] =
                        Some([bias |-> latest_weight.bias + weight,
                              slope |-> latest_weight.slope])])

\* change_gauge_weight that writes the checkpoint without the slope
change_gauge_weight_resetting_slope(s, time, sender, addr, weight) ==
  IF s.config.owner # sender THEN Err("Unauthorized", s)
  ELSE LET period == get_period(time, s.config.period_duration)
           c == checkpoint_gauge(s, addr, period)
       IN IF c.err # "Ok" THEN c
          ELSE Ok([c.st EXCEPT !.gauge_weight[addr][period] =
                     Some([bias |-> weight, slope |-> 0])])

\* change_gauge_weight that overwrites the checkpoint that was the latest
change_gauge_weight_at_latest(s, time, sender, addr, weight) ==
  IF s.config.owner # sender THEN Err("Unauthorized", s)
  ELSE LET period == get_period(time, s.config.period_duration)
           c == checkpoint_gauge(s, addr, period)
       IN IF c.err # "Ok" THEN c
          ELSE LET latest_weight == unwrap(fetch_latest_checkpoint(c.st, addr)).weight
                   latest_period == unwrap(fetch_latest_checkpoint(s, addr)).period
               IN Ok([c.st EXCEPT !.gauge_weight[addr][latest_period] =
                        Some([bias |-> weight, slope |-> latest_weight.slope])])

\* change_gauge_weight that ignores a weight of zero
change_gauge_weight_ignoring_zero(s, time, sender, addr, weight) ==
  IF s.config.owner # sender THEN Err("Unauthorized", s)
  ELSE LET period == get_period(time, s.config.period_duration)
           c == checkpoint_gauge(s, addr, period)
       IN IF c.err # "Ok" \/ weight = 0 THEN c
          ELSE LET latest_weight == unwrap(fetch_latest_checkpoint(c.st, addr)).weight
               IN Ok([c.st EXCEPT !.gauge_weight[addr][period] =
                        Some([bias |-> weight, slope |-> latest_weight.slope])])

\* change_gauge_weight that writes the checkpoint without the catch-up
change_gauge_weight_unchecked(s, time, sender, addr, weight) ==
  IF s.config.owner # sender THEN Err("Unauthorized", s)
  ELSE IF ~check_if_exists(s, addr) THEN Err("GaugeNotFound", s)
  ELSE LET period == get_period(time, s.config.period_duration)
           latest_weight == unwrap(fetch_latest_checkpoint(s, addr)).weight
       IN Ok([s EXCEPT !.gauge_weight[addr][period] =
                Some([bias |-> weight, slope |-> latest_weight.slope])])

change_gauge_weight(s, time, sender, addr, weight) ==
  IF s.config.owner # sender THEN Err("Unauthorized", s)
  ELSE LET period == get_period(time, s.config.period_duration)
           c == checkpoint_gauge(s, addr, period)
       IN IF c.err # "Ok" THEN c
          ELSE LET latest_weight == unwrap(fetch_latest_checkpoint(c.st, addr)).weight
               IN Ok([c.st EXCEPT !.gauge_weight[addr][period] =
                        Some([bias |-> weight, slope |-> latest_weight.slope])])

\* new_vote_slope that keeps a slope whose bias contribution rounds to zero
new_vote_slope_kept(slope0, dt) == slope0

\* the slope of the new vote: zero when its bias contribution rounds to zero
new_vote_slope(slope0, dt) == IF rounded_mul(slope0, dt) = 0 THEN 0 ELSE slope0

\* is the prior vote (an Option) still decaying at current_period?
prior_is_live(prior, current_period) ==
  prior # None /\ unwrap(prior).unlock_period > current_period

\* add_new_vote with sums that wrap around at the width of a Uint128
add_new_vote_wrapping(weight0, user_slope, dt) ==
  [slope |-> (weight0.slope + user_slope) % (MaxUint128 + 1),
   bias |-> (weight0.bias + rounded_mul(user_slope, dt)) % (MaxUint128 + 1)]

\* the caught-up weight with the new vote added
add_new_vote(weight0, user_slope, dt) ==
  [slope |-> weight0.slope + user_slope,
   bias |-> weight0.bias + rounded_mul(user_slope, dt)]

\* remove_prior_vote that takes the prior vote out of the bias only
remove_prior_vote_bias_only(weight, prior, current_period) ==
  IF prior_is_live(prior, current_period)
  THEN [slope |-> weight.slope,
        bias |-> saturating_sub(weight.bias,
                   rounded_mul(unwrap(prior).slope,
                               unwrap(prior).unlock_period - current_period))]
  ELSE weight

\* remove_prior_vote that leaves the prior vote's contribution in the weight
remove_prior_vote_skipped(weight, prior, current_period) == weight

\* remove_prior_vote with plain subtractions in place of the saturating ones
remove_prior_vote_unsaturated(weight, prior, current_period) ==
  IF prior_is_live(prior, current_period)
  THEN [slope |-> weight.slope - unwrap(prior).slope,
        bias |-> weight.bias - rounded_mul(unwrap(prior).slope,
                                           unwrap(prior).unlock_period - current_period)]
  ELSE weight

\* the weight with the remaining contribution of a live prior vote taken out
remove_prior_vote(weight, prior, current_period) ==
  IF prior_is_live(prior, current_period)
  THEN [slope |-> IF weight.slope > unwrap(prior).slope
                  THEN weight.slope - unwrap(prior).slope ELSE 0,
        bias |-> saturating_sub(weight.bias,
                   rounded_mul(unwrap(prior).slope,
                               unwrap(prior).unlock_period - current_period))]
  ELSE weight

\* reschedule that does not schedule the new vote's reduction
reschedule_nothing(s, addr, user_slope, user_unlock_period, prior, current_period) ==
  IF prior_is_live(prior, current_period)
  THEN cancel_scheduled_slope_change(s, addr, unwrap(prior).slope,
                                     unwrap(prior).unlock_period)
  ELSE s

\* reschedule without the cancellation of the prior vote's reduction
reschedule_without_cancel(s, addr, user_slope, user_unlock_period, prior, current_period) ==
  schedule_slope_change(s, addr, user_slope, user_unlock_period)

\* the schedule with the new vote's reduction added and a live prior vote's
\* reduction cancelled
reschedule(s, addr, user_slope, user_unlock_period, prior, current_period) ==
  LET s2 == schedule_slope_change(s, addr, user_slope, user_unlock_period)
  IN IF prior_is_live(prior, current_period)
     THEN cancel_scheduled_slope_change(s2, addr, unwrap(prior).slope,
                                        unwrap(prior).unlock_period)
     ELSE s2

\* release_prior_ratio that keeps the prior vote's ratio allocated
release_prior_ratio_skipped(s, sender, prior) == s

\* USER_RATIO of the sender without the ratio of the prior vote, if there is one
release_prior_ratio(s, sender, prior) ==
  IF prior # None
  THEN [s EXCEPT !.user_ratio[sender] = Some(unwrap(@) - unwrap(prior).ratio)]
  ELSE s

\* USER_RATIO of the sender with the ratio of the new vote
add_new_ratio(s, sender, ratio) ==
  [s EXCEPT !.user_ratio[sender] = Some(unwrap_or(@, 0) + ratio)]

\* save_vote that writes no record for a vote of ratio 0
save_vote_skipping_zero(s, sender, addr, user_slope, current_period, user_unlock_period, ratio) ==
  IF ratio = 0 THEN s
  ELSE [s EXCEPT !.user_votes[sender][addr] =
          Some([slope |-> user_slope, vote_period |-> current_period,
                unlock_period |-> user_unlock_period, ratio |-> ratio])]

\* save_vote that writes the record under every gauge of the sender
save_vote_for_every_gauge(s, sender, addr, user_slope, current_period, user_unlock_period, ratio) ==
  [s EXCEPT !.user_votes[sender] =
     [g \in GaugeAddrs |->
        Some([slope |-> user_slope, vote_period |-> current_period,
              unlock_period |-> user_unlock_period, ratio |-> ratio])]]

save_vote(s, sender, addr, user_slope, current_period, user_unlock_period, ratio) ==
  [s EXCEPT !.user_votes[sender][addr] =
     Some([slope |-> user_slope, vote_period |-> current_period,
           unlock_period |-> user_unlock_period, ratio |-> ratio])]

\* vote_for_gauge_weight from the catch-up on: s is the storage after
\* checkpoint_gauge, slope0 the slope computed from the ratio.
vote_apply(s, sender, addr, ratio, current_period, user_unlock_period, slope0) ==
  LET weight0 == unwrap(fetch_latest_checkpoint(s, addr)).weight
      dt == user_unlock_period - current_period
      user_slope == new_vote_slope(slope0, dt)
      weight1 == add_new_vote(weight0, user_slope, dt)
      prior == s.user_votes[sender][addr]
      weight == remove_prior_vote(weight1, prior, current_period)
      s3 == reschedule(s, addr, user_slope, user_unlock_period, prior, current_period)
      s4 == release_prior_ratio(s3, sender, prior)
      s5 == [s4 EXCEPT !.gauge_weight[addr][current_period] = Some(weight)]
      s6 == save_vote(s5, sender, addr, user_slope, current_period,
                      user_unlock_period, ratio)
  IN IF rounded_mul(slope0, dt) > MaxUint128 THEN Err("Overflow", s)
     ELSE IF weight1.slope > MaxUint128 \/ weight1.bias > MaxUint128 THEN Err("Panic", s)
     ELSE IF prior_is_live(prior, current_period)
             /\ rounded_mul(unwrap(prior).slope,
                            unwrap(prior).unlock_period - current_period) > MaxUint128
          THEN Err("Overflow", schedule_slope_change(s, addr, user_slope,
                                                     user_unlock_period))
     ELSE IF prior # None /\ (s3.user_ratio[sender] = None
                              \/ unwrap_or(s3.user_ratio[sender], 0) < unwrap(prior).ratio)
          THEN Err("Panic", s3)
     ELSE Ok(add_new_ratio(s6, sender, ratio))

\* invalid_ratio that also refuses the whole voting power
invalid_ratio_inclusive(ratio) == ratio >= MaxRatio

\* the ratio is more than the whole voting power
invalid_ratio(ratio) == ratio > MaxRatio

\* lock_expires_too_soon that accepts a lock ending in the current period
lock_expires_too_soon_strict(user_unlock_period, current_period) ==
  user_unlock_period < current_period

\* the sender's lock ends in the current period or before it
lock_expires_too_soon(user_unlock_period, current_period) ==
  user_unlock_period <= current_period

\* vote_too_often that looks at the sender's records for every gauge
vote_too_often_on_any_gauge(s, sender, addr, current_period) ==
  \E g \in DOMAIN s.user_votes[sender] :
    /\ s.user_votes[sender][g] # None
    /\ current_period < unwrap(s.user_votes[sender][g]).vote_period
                          + s.config.user_vote_delay

\* the sender has a record for addr and the vote delay has not passed since it
vote_too_often(s, sender, addr, current_period) ==
  /\ s.user_votes[sender][addr] # None
  /\ current_period < unwrap(s.user_votes[sender][addr]).vote_period
                        + s.config.user_vote_delay

\* insufficient_ratio that does not take the prior ratio out
insufficient_ratio_prior_kept(used_ratio, old_ratio, ratio) ==
  used_ratio + ratio > MaxRatio

\* the allocation would exceed the whole voting power
insufficient_ratio(used_ratio, old_ratio, ratio) ==
  used_ratio - old_ratio + ratio > MaxRatio

\* vote_catch_up that seeds a gauge that does not exist
vote_catch_up_seeding(s, addr, current_period) ==
  IF check_if_exists(s, addr) THEN checkpoint_gauge(s, addr, current_period)
  ELSE Ok([s EXCEPT !.gauge_weight[addr][current_period] =
             Some([bias |-> 0, slope |-> 0])])

\* vote_catch_up that leaves the gauge at its latest checkpoint
vote_catch_up_skipped(s, addr, current_period) ==
  IF check_if_exists(s, addr) THEN Ok(s) ELSE Err("GaugeNotFound", s)

\* the catch-up of the gauge made by a vote
vote_catch_up(s, addr, current_period) == checkpoint_gauge(s, addr, current_period)

\* vote_for_gauge_weight that catches the gauge up before it asks the voting
\* escrow for the lock of the sender
vote_for_gauge_weight_catching_up_first(s, time, sender, addr, ratio, user_unlock_period, user_full_slope) ==
  LET current_period == get_period(time, s.config.period_duration)
      prior == s.user_votes[sender][addr]
      old_ratio == IF prior # None THEN unwrap(prior).ratio ELSE 0
      used_ratio == unwrap_or(s.user_ratio[sender], 0)
      c == vote_catch_up(s, addr, current_period)
  IN IF invalid_ratio(ratio) THEN Err("InvalidVotingRatio", s)
     ELSE IF vote_too_often(s, sender, addr, current_period)
          THEN Err("VoteTooOften", s)
     ELSE IF used_ratio < old_ratio THEN Err("Panic", s)
     ELSE IF insufficient_ratio(used_ratio, old_ratio, ratio)
          THEN Err("InsufficientVotingRatio", s)
     ELSE IF c.err # "Ok" THEN c
     ELSE IF lock_expires_too_soon(user_unlock_period, current_period)
          THEN Err("LockExpiresTooSoon", s)
     ELSE IF ratio * user_full_slope > MaxUint128
             \/ MaxRatio * DecimalFractional > MaxUint128
          THEN Err("Overflow", s)
     ELSE vote_apply(c.st, sender, addr, ratio, current_period, user_unlock_period,
                     from_ratio(ratio * user_full_slope, MaxRatio * DecimalFractional))

\* user_unlock_period and user_full_slope are the answers of the voting escrow
\* to query_user_unlock_period and query_last_user_slope for the sender.
vote_for_gauge_weight(s, time, sender, addr, ratio, user_unlock_period, user_full_slope) ==
  LET current_period == get_period(time, s.config.period_duration)
      prior == s.user_votes[sender][addr]
      old_ratio == IF prior # None THEN unwrap(prior).ratio ELSE 0
      used_ratio == unwrap_or(s.user_ratio[sender], 0)
      c == vote_catch_up(s, addr, current_period)
  IN IF invalid_ratio(ratio) THEN Err("InvalidVotingRatio", s)
     ELSE IF vote_too_often(s, sender, addr, current_period)
          THEN Err("VoteTooOften", s)
     ELSE IF used_ratio < old_ratio THEN Err("Panic", s)
     ELSE IF insufficient_ratio(used_ratio, old_ratio, ratio)
          THEN Err("InsufficientVotingRatio", s)
     ELSE IF lock_expires_too_soon(user_unlock_period, current_period)
          THEN Err("LockExpiresTooSoon", s)
     ELSE IF ratio * user_full_slope > MaxUint128
             \/ MaxRatio * DecimalFractional > MaxUint128
          THEN Err("Overflow", s)
     ELSE IF c.err # "Ok" THEN c
     ELSE vote_apply(c.st, sender, addr, ratio, current_period, user_unlock_period,
                     from_ratio(ratio * user_full_slope, MaxRatio * DecimalFractional))

\* ExecuteMsg variants
AddGaugeMsg(addr, weight) == [type |-> "AddGauge", gauge_addr |-> addr, weight |-> weight]
ChangeGaugeWeightMsg(addr, weight) ==
  [type |-> "ChangeGaugeWeight", gauge_addr |-> addr, weight |-> weight]
VoteForGaugeWeightMsg(addr, ratio) ==
  [type |-> "VoteForGaugeWeight", gauge_addr |-> addr, ratio |-> ratio]
UpdateConfigMsg(owner, anchor_token, anchor_voting_escrow, user_vote_delay) ==
  [type |-> "UpdateConfig", owner |-> owner, anchor_token |-> anchor_token,
   anchor_voting_escrow |-> anchor_voting_escrow, user_vote_delay |-> user_vote_delay]

\* The handler the message is dispatched to.  env is the block time and the
\* answers the voting escrow gives for the sender.
dispatch(s, env, sender, msg) ==
  CASE msg.type = "AddGauge" ->
         add_gauge(s, env.time, sender, msg.gauge_addr, msg.weight)
    [] msg.type = "ChangeGaugeWeight" ->
         change_gauge_weight(s, env.time, sender, msg.gauge_addr, msg.weight)
    [] msg.type = "VoteForGaugeWeight" ->
         vote_for_gauge_weight(s, env.time, sender, msg.gauge_addr, msg.ratio,
                               env.unlock_period, env.full_slope)
    [] msg.type = "UpdateConfig" ->
         update_config(s, sender, msg.owner, msg.anchor_token,
                       msg.anchor_voting_escrow, msg.user_vote_delay)

\* execute that keeps the writes of a failed handler
execute_keeping_writes(s, env, sender, msg) == dispatch(s, env, sender, msg)

\* The execute entry point: the writes of a handler that returns an error (or
\* panics) are discarded, the storage stays as it was before the call.
execute(s, env, sender, msg) ==
  LET r == dispatch(s, env, sender, msg)
  IN IF r.err = "Ok" THEN r ELSE Err(r.err, s)

-----------------------------------------------------------------------------
(* contract: queries.  The result is [err, value]. *)

query_gauge_weight(s, now, addr) == get_gauge_weight_at(s, addr, now)

query_total_weight(s, now) == get_total_weight_at(s, now)

\* the gauge's share of the total weight now, as a Decimal
query_gauge_relative_weight(s, now, addr) ==
  LET weight == get_gauge_weight_at(s, addr, now)
      total == get_total_weight_at(s, now)
  IN IF weight.err # "Ok" THEN weight
     ELSE IF total.err # "Ok" THEN total
     ELSE IF total.value = 0 THEN [err |-> "TotalWeightIsZero", value |-> 0]
     ELSE [err |-> "Ok", value |-> from_ratio(weight.value, total.value)]

query_gauge_weight_at(s, addr, time) == get_gauge_weight_at(s, addr, time)

query_total_weight_at(s, time) == get_total_weight_at(s, time)

\* query_gauge_relative_weight_at that answers zero for no total
query_gauge_relative_weight_at_zero(s, addr, time) ==
  LET weight == get_gauge_weight_at(s, addr, time)
      total == get_total_weight_at(s, time)
  IN IF weight.err # "Ok" THEN weight
     ELSE IF total.err # "Ok" THEN total
     ELSE IF total.value = 0 THEN [err |-> "Ok", value |-> 0]
     ELSE [err |-> "Ok", value |-> from_ratio(weight.value, total.value)]

\* the gauge's share of the total weight at time, as a Decimal
query_gauge_relative_weight_at(s, addr, time) ==
  LET weight == get_gauge_weight_at(s, addr, time)
      total == get_total_weight_at(s, time)
  IN IF weight.err # "Ok" THEN weight
     ELSE IF total.err # "Ok" THEN total
     ELSE IF total.value = 0 THEN [err |-> "TotalWeightIsZero", value |-> 0]
     ELSE [err |-> "Ok", value |-> from_ratio(weight.value, total.value)]

query_gauge_count(s) == Len(s.gauge_addr)

\* gauge ids count from 0
query_gauge_addr(s, gauge_id) ==
  IF gauge_id >= Len(s.gauge_addr) THEN [err |-> "GaugeNotFound", value |-> ""]
  ELSE [err |-> "Ok", value |-> s.gauge_addr[gauge_id + 1]]

query_all_gauge_addr(s) == s.gauge_addr

-----------------------------------------------------------------------------
(* The state machine: one action per ExecuteMsg *)

Env(time, unlock_period, full_slope) ==
  [time |-> time, unlock_period |-> unlock_period, full_slope |-> full_slope]

\* A call in the current block: the storage becomes what execute returns.
Commit(r) ==
  /\ calls < MaxCalls
  /\ calls' = IF r.err = "Ok" THEN calls + 1 ELSE calls
  /\ config' = r.st.config
  /\ gauge_addr' = r.st.gauge_addr
  /\ gauge_weight' = r.st.gauge_weight
  /\ slope_changes' = r.st.slope_changes
  /\ user_votes' = r.st.user_votes
  /\ user_ratio' = r.st.user_ratio
  /\ UNCHANGED <<block_time, twin, phase, first_vote>>

InitStore ==
  \E period_duration \in PeriodDurations \cup {0}, user_vote_delay \in InitVoteDelays :
    /\ validate_period_duration(period_duration)
    /\ LET s == instantiate("owner", period_duration, user_vote_delay)
       IN /\ config = s.config
          /\ gauge_addr = s.gauge_addr
          /\ gauge_weight = s.gauge_weight
          /\ slope_changes = s.slope_changes
          /\ user_votes = s.user_votes
          /\ user_ratio = s.user_ratio
    /\ block_time = 0
    /\ calls = 0

\* One run of the contract: the second storage is not used.
Init ==
  /\ InitStore
  /\ twin = Store
  /\ phase = "single"
  /\ first_vote = None

\* the next block: block time never decreases
NextBlock ==
  /\ get_period(block_time + 1, config.period_duration) < MaxPeriod
  /\ block_time' = block_time + 1
  /\ UNCHANGED <<config, gauge_addr, gauge_weight, slope_changes, user_votes,
                 user_ratio, calls, twin, phase, first_vote>>

AddGauge ==
  \E sender \in Senders, addr \in GaugeAddrs, weight \in Weights :
    Commit(execute(Store, Env(block_time, 0, 0), sender, AddGaugeMsg(addr, weight)))

ChangeGaugeWeight ==
  \E sender \in Senders, addr \in GaugeAddrs, weight \in Weights :
    Commit(execute(Store, Env(block_time, 0, 0), sender,
                   ChangeGaugeWeightMsg(addr, weight)))

VoteForGaugeWeight ==
  \E sender \in Senders, addr \in GaugeAddrs, ratio \in Ratios,
     unlock_period \in Periods, full_slope \in FullSlopes :
    Commit(execute(Store, Env(block_time, unlock_period, full_slope), sender,
                   VoteForGaugeWeightMsg(addr, ratio)))

UpdateConfig ==
  \E sender \in Senders, owner \in {None} \cup {Some(a) : a \in Senders},
     user_vote_delay \in {None} \cup {Some(d) : d \in VoteDelays} :
    Commit(execute(Store, Env(block_time, 0, 0), sender,
                   UpdateConfigMsg(owner, None, None, user_vote_delay)))

Next == NextBlock \/ AddGauge \/ ChangeGaugeWeight \/ VoteForGaugeWeight \/ UpdateConfig

Spec == Init /\ [][Next]_vars

-----------------------------------------------------------------------------
(* The calls that can be made in a block of a given time, and their outcome. *)

Call(time, unlock_period, full_slope, sender, msg) ==
  [env |-> Env(time, unlock_period, full_slope), sender |-> sender, msg |-> msg]

VoteCalls(time) ==
  {Call(time, u, f, v, VoteForGaugeWeightMsg(g, r)) :
     u \in Periods, f \in FullSlopes, v \in Senders, g \in GaugeAddrs, r \in Ratios}

AdminCalls(time) ==
  {Call(time, 0, 0, v, AddGaugeMsg(g, w)) : v \in Senders, g \in GaugeAddrs, w \in Weights}
  \cup
  {Call(time, 0, 0, v, ChangeGaugeWeightMsg(g, w)) :
     v \in Senders, g \in GaugeAddrs, w \in Weights}
  \cup
  {Call(time, 0, 0, v, UpdateConfigMsg(o, None, None, d)) :
     v \in Senders, o \in {None} \cup {Some(a) : a \in Senders},
     d \in {None} \cup {Some(x) : x \in VoteDelays}}

Calls(time) == VoteCalls(time) \cup AdminCalls(time)

\* result of the call c on storage s
After(s, c) == execute(s, c.env, c.sender, c.msg)

\* the run has calls left
InRun == calls < MaxCalls

\* the times a block can have, and the times a query can ask about
BlockTimes ==
  {t \in 0..(MaxPeriod * SetMax(PeriodDurations)) :
     get_period(t, config.period_duration) < MaxPeriod}
QueryTimes ==
  {t \in 0..((MaxPeriod + 1) * SetMax(PeriodDurations)) :
     get_period(t, config.period_duration) <= MaxPeriod}

\* the gauges that have a checkpoint
Gauges(s) == {g \in GaugeAddrs : check_if_exists(s, g)}

\* the period of the current block
CurrentPeriod == get_period(block_time, config.period_duration)

\* the period of the latest checkpoint of a gauge that has one
LatestPeriod(s, g) == unwrap(fetch_latest_checkpoint(s, g)).period

\* the period of the block of call c
CallPeriod(s, c) == get_period(c.env.time, s.config.period_duration)

\* the vote record the sender of vote call c has for the gauge of the call
PriorOf(s, c) == s.user_votes[c.sender][c.msg.gauge_addr]

-----------------------------------------------------------------------------
(* C1 *)

\* sum of the ratios of the vote records of voter u
RatioOfVotes(s, u) ==
  SumOver({g \in GaugeAddrs : s.user_votes[u][g] # None},
          [g \in GaugeAddrs |-> unwrap_or(s.user_votes[u][g], [ratio |-> 0]).ratio])

AllocatedRatioMatches(s) ==
  \A u \in Senders :
    /\ unwrap_or(s.user_ratio[u], 0) = RatioOfVotes(s, u)
    /\ unwrap_or(s.user_ratio[u], 0) <= MaxRatio

-----------------------------------------------------------------------------
(* C2 *)

\* sum of the slopes of the current vote records on gauge g that unlock at p
SlopeUnlockingAt(s, g, p) ==
  SumOver({u \in Senders : /\ s.user_votes[u][g] # None
                           /\ unwrap(s.user_votes[u][g]).unlock_period = p},
          [u \in Senders |-> unwrap_or(s.user_votes[u][g], [slope |-> 0]).slope])

ScheduleMatchesVotes(s) ==
  \A g \in GaugeAddrs :
    check_if_exists(s, g) =>
      \A p \in Periods :
        p > LatestPeriod(s, g) => s.slope_changes[g][p] = SlopeUnlockingAt(s, g, p)

\* C2: for every gauge g and every period p later than g's latest checkpoint,
\* the slope reduction scheduled for (g, p) is the sum of the slopes of the
\* current vote records on g that unlock at p.
C2_ScheduleMatchesVotes == ScheduleMatchesVotes(Store)

\* a vote with a positive slope and a pending unlock period is superseded by a
\* zero-ratio vote, and nothing stays scheduled at its unlock period
C2_Witness ==
  /\ InRun
  /\ \E c \in VoteCalls(block_time) :
         LET prior == user_votes[c.sender][c.msg.gauge_addr]
         IN /\ After(Store, c).err = "Ok"
            /\ c.msg.ratio = 0
            /\ prior_is_live(prior, CurrentPeriod)
            /\ unwrap(prior).slope > 0
            /\ slope_changes[c.msg.gauge_addr][unwrap(prior).unlock_period] > 0
            /\ After(Store, c).st.slope_changes[c.msg.gauge_addr][unwrap(prior).unlock_period] = 0

-----------------------------------------------------------------------------
(* C3 *)
(* Two runs of the contract side by side: the storage variables hold the run in
   which a voter votes for a gauge and later re-votes; twin holds the run that
   gets the same calls except the first of these two votes. *)

\* both runs take the result of the same call
CommitBoth(r, r2) ==
  /\ calls < MaxCalls
  /\ r.err = "Ok" /\ r2.err = "Ok"
  /\ calls' = calls + 1
  /\ config' = r.st.config
  /\ gauge_addr' = r.st.gauge_addr
  /\ gauge_weight' = r.st.gauge_weight
  /\ slope_changes' = r.st.slope_changes
  /\ user_votes' = r.st.user_votes
  /\ user_ratio' = r.st.user_ratio
  /\ twin' = r2.st
  /\ UNCHANGED block_time

InitRevote ==
  /\ InitStore
  /\ twin = Store
  /\ phase = "before"
  /\ first_vote = None

\* call c is a vote of the voter of the first vote for its gauge
IsRevote(c) ==
  /\ first_vote # None
  /\ c.msg.type = "VoteForGaugeWeight"
  /\ c.sender = unwrap(first_vote).sender
  /\ c.msg.gauge_addr = unwrap(first_vote).gauge_addr

\* a call other than the two votes, made in both runs
SameCall ==
  /\ phase \in {"before", "voted"}
  /\ \E c \in Calls(block_time) :
       /\ ~IsRevote(c)
       /\ CommitBoth(After(Store, c), After(twin, c))
  /\ UNCHANGED <<phase, first_vote>>

\* the first vote, made in the first run only
FirstVote ==
  /\ phase = "before"
  /\ \E c \in VoteCalls(block_time) :
       /\ PriorOf(Store, c) = None
       /\ After(Store, c).err = "Ok"
       /\ config' = After(Store, c).st.config
       /\ gauge_addr' = After(Store, c).st.gauge_addr
       /\ gauge_weight' = After(Store, c).st.gauge_weight
       /\ slope_changes' = After(Store, c).st.slope_changes
       /\ user_votes' = After(Store, c).st.user_votes
       /\ user_ratio' = After(Store, c).st.user_ratio
       /\ first_vote' = Some([sender |-> c.sender, gauge_addr |-> c.msg.gauge_addr,
                              vote |-> unwrap(PriorOf(After(Store, c).st, c))])
  /\ phase' = "voted"
  /\ UNCHANGED <<block_time, calls, twin>>

\* the re-vote, made in both runs while the first vote's unlock period is pending
ReVote ==
  /\ phase = "voted"
  /\ \E c \in VoteCalls(block_time) :
       /\ IsRevote(c)
       /\ unwrap(first_vote).vote.unlock_period > CurrentPeriod
       /\ CommitBoth(After(Store, c), After(twin, c))
  /\ phase' = "revoted"
  /\ UNCHANGED first_vote

\* the next block, until the re-vote is made
NextBlockBoth == phase # "revoted" /\ NextBlock

NextRevote == NextBlockBoth \/ SameCall \/ FirstVote \/ ReVote

SpecRevote == InitRevote /\ [][NextRevote]_vars

\* the gauge of the two votes
RevotedGauge == unwrap(first_vote).gauge_addr

\* C3 as stated: from the re-vote period onward the gauge's weight at every
\* period equals its weight in the run with the single vote.
C3_SameWeights ==
  phase = "revoted" =>
    \A t \in QueryTimes :
      t >= block_time =>
        query_gauge_weight_at(Store, RevotedGauge, t)
          = query_gauge_weight_at(twin, RevotedGauge, t)

\* C3: after the re-vote the gauge's slope, its scheduled slope reductions at
\* every later period and the voter's record equal those of the run with the
\* single vote.
C3_SameSlopes ==
  phase = "revoted" =>
    /\ LatestPeriod(Store, RevotedGauge) = LatestPeriod(twin, RevotedGauge)
    /\ unwrap(fetch_latest_checkpoint(Store, RevotedGauge)).weight.slope
         = unwrap(fetch_latest_checkpoint(twin, RevotedGauge)).weight.slope
    /\ \A p \in Periods :
         p > LatestPeriod(Store, RevotedGauge) =>
           slope_changes[RevotedGauge][p] = twin.slope_changes[RevotedGauge][p]
    /\ user_votes[unwrap(first_vote).sender][RevotedGauge]
         = twin.user_votes[unwrap(first_vote).sender][RevotedGauge]

\* a first vote with a positive slope is replaced in a later period by a vote
\* with another ratio and a positive slope
C3_Witness ==
  /\ phase = "revoted"
  /\ unwrap(first_vote).vote.slope > 0
  /\ LET v == unwrap(user_votes[unwrap(first_vote).sender][RevotedGauge])
     IN /\ v.slope > 0
        /\ v.ratio # unwrap(first_vote).vote.ratio
        /\ v.vote_period > unwrap(first_vote).vote.vote_period

-----------------------------------------------------------------------------
(* C4 *)

\* C4: every stored checkpoint of every gauge has bias >= 0 and slope >= 0, and
\* every weight returned by GaugeWeight, GaugeWeightAt, TotalWeight and
\* TotalWeightAt is >= 0.
C4_NonNegative ==
  /\ \A g \in GaugeAddrs, p \in Periods :
       gauge_weight[g][p] # None =>
         unwrap(gauge_weight[g][p]).bias >= 0 /\ unwrap(gauge_weight[g][p]).slope >= 0
  /\ \A g \in GaugeAddrs :
       /\ query_gauge_weight(Store, block_time, g).value >= 0
       /\ \A t \in QueryTimes : query_gauge_weight_at(Store, g, t).value >= 0
  /\ query_total_weight(Store, block_time).value >= 0
  /\ \A t \in QueryTimes : query_total_weight_at(Store, t).value >= 0

\* a re-vote whose subtraction of the prior contribution is floored: the bias
\* left after the catch-up and the new vote is less than what is taken out
C4_Witness ==
  /\ InRun
  /\ \E c \in VoteCalls(block_time) :
         LET g == c.msg.gauge_addr
             prior == user_votes[c.sender][g]
             caught == checkpoint_gauge(Store, g, CurrentPeriod)
         IN /\ After(Store, c).err = "Ok"
            /\ c.msg.ratio = 0
            /\ prior_is_live(prior, CurrentPeriod)
            /\ unwrap(fetch_latest_checkpoint(caught.st, g)).weight.bias
                 < rounded_mul(unwrap(prior).slope, unwrap(prior).unlock_period - CurrentPeriod)
            /\ unwrap(After(Store, c).st.gauge_weight[g][CurrentPeriod]).bias = 0

-----------------------------------------------------------------------------
(* C5 *)

-----------------------------------------------------------------------------
(* C6 *)

\* call c passes the checks its handler makes before the gauge catch-up
PassesEarlierChecks(s, c) ==
  IF c.msg.type = "ChangeGaugeWeight" THEN c.sender = s.config.owner
  ELSE LET prior == PriorOf(s, c)
           old_ratio == IF prior # None THEN unwrap(prior).ratio ELSE 0
           used_ratio == unwrap_or(s.user_ratio[c.sender], 0)
       IN /\ c.msg.ratio <= MaxRatio
          /\ prior # None =>
               CallPeriod(s, c) >= unwrap(prior).vote_period + s.config.user_vote_delay
          /\ used_ratio - old_ratio + c.msg.ratio <= MaxRatio
          /\ c.env.unlock_period > CallPeriod(s, c)
          /\ c.msg.ratio * c.env.full_slope <= MaxUint128

\* the ChangeGaugeWeight and VoteForGaugeWeight calls at time t on a gauge
\* whose latest checkpoint is at a later period
BackwardCalls(s, t) ==
  {c \in Calls(t) :
     /\ c.msg.type \in {"ChangeGaugeWeight", "VoteForGaugeWeight"}
     /\ check_if_exists(s, c.msg.gauge_addr)
     /\ CallPeriod(s, c) < LatestPeriod(s, c.msg.gauge_addr)}

\* no call at any block time moves the latest checkpoint of a gauge back
LatestNeverDecreases(s) ==
  \A t \in BlockTimes : \A c \in Calls(t) :
    LET st == After(s, c).st
    IN \A g \in Gauges(s) :
         /\ check_if_exists(st, g)
         /\ LatestPeriod(st, g) >= LatestPeriod(s, g)

\* C6 as stated: a mutating call on a gauge at a period before a period already
\* checkpointed for it fails with TimestampError.
C6_AlwaysTimestampError ==
  InRun =>
    \A t \in BlockTimes : \A c \in BackwardCalls(Store, t) :
      After(Store, c).err = "TimestampError"

\* C6: a mutating call on a gauge at a period before a period already
\* checkpointed for it is rejected, with TimestampError when it passes the
\* checks made before the catch-up; the latest checkpointed period of every
\* gauge never decreases.
C6_MonotonicPeriods ==
  InRun =>
    /\ \A t \in BlockTimes : \A c \in BackwardCalls(Store, t) :
         LET err == After(Store, c).err
         IN /\ err # "Ok"
            /\ PassesEarlierChecks(Store, c) => err = "TimestampError"
    /\ LatestNeverDecreases(Store)

\* both a vote and a weight change, at an earlier time than the gauge's latest
\* checkpoint, pass the earlier checks and fail with TimestampError
C6_Witness ==
  /\ InRun
  /\ \E t \in BlockTimes : \E c \in BackwardCalls(Store, t), d \in BackwardCalls(Store, t) :
       /\ c.msg.type = "VoteForGaugeWeight" /\ d.msg.type = "ChangeGaugeWeight"
       /\ t < block_time
       /\ PassesEarlierChecks(Store, c) /\ PassesEarlierChecks(Store, d)
       /\ After(Store, c).err = "TimestampError"
       /\ After(Store, d).err = "TimestampError"

-----------------------------------------------------------------------------
(* C7 *)

\* the vote calls at time t that add no contribution to their gauge: the
\* sender has no record for it and the vote's slope is zero
NoContributionVotes(s, t) ==
  {c \in VoteCalls(t) :
     /\ PriorOf(s, c) = None
     /\ LET r == After(s, c)
        IN r.err = "Ok" /\ unwrap(PriorOf(r.st, c)).slope = 0}

-----------------------------------------------------------------------------
(* C8 *)

\* TotalWeightAt(t) is the sum of GaugeWeightAt(g, t) over the gauges; it fails
\* when one of them fails.
TotalIsSumAt(s, t) ==
  LET total == query_total_weight_at(s, t)
      each == [g \in GaugeAddrs |-> query_gauge_weight_at(s, g, t)]
  IN IF \A g \in Gauges(s) : each[g].err = "Ok"
     THEN /\ total.err = "Ok"
          /\ total.value = SumOver(Gauges(s), [g \in GaugeAddrs |-> each[g].value])
     ELSE total.err # "Ok"

-----------------------------------------------------------------------------
(* C9 *)

\* the sender of vote call c has a record for the gauge and the vote delay has
\* not passed since it
WithinVoteDelay(s, c) ==
  /\ PriorOf(s, c) # None
  /\ CallPeriod(s, c) < unwrap(PriorOf(s, c)).vote_period + s.config.user_vote_delay

\* C9 as stated: a vote is rejected with VoteTooOften whenever a record for the
\* (voter, gauge) pair exists and the vote delay has not passed.
C9_AlwaysVoteTooOften ==
  \A c \in VoteCalls(block_time) :
    WithinVoteDelay(Store, c) => After(Store, c).err = "VoteTooOften"

\* C9: a vote with a ratio of at most 10000 is rejected with VoteTooOften
\* whenever a record for the (voter, gauge) pair exists and the vote delay has
\* not passed; no vote is rejected with VoteTooOften otherwise, whatever the
\* voter's records for other gauges.
C9_VoteTooOften ==
  \A c \in VoteCalls(block_time) :
    LET err == After(Store, c).err
    IN /\ (c.msg.ratio <= MaxRatio /\ WithinVoteDelay(Store, c)) => err = "VoteTooOften"
       /\ err = "VoteTooOften" => WithinVoteDelay(Store, c)

\* a voter within the vote delay on one gauge: a vote on it is rejected with
\* VoteTooOften, one on another gauge in the same block is not
C9_Witness ==
  \E c \in VoteCalls(block_time), d \in VoteCalls(block_time) :
       /\ c.sender = d.sender /\ c.msg.gauge_addr # d.msg.gauge_addr
       /\ c.msg.ratio <= MaxRatio /\ d.msg.ratio <= MaxRatio
       /\ WithinVoteDelay(Store, c)
       /\ After(Store, c).err = "VoteTooOften"
       /\ After(Store, d).err = "Ok"

-----------------------------------------------------------------------------
(* C10 *)

\* allocated ratio of the sender of vote call c, without the ratio of the
\* sender's record for the gauge, with the ratio of the call
RatioAfter(s, c) ==
  unwrap_or(s.user_ratio[c.sender], 0)
    - (IF PriorOf(s, c) # None THEN unwrap(PriorOf(s, c)).ratio ELSE 0)
    + c.msg.ratio

\* the prior ratio is never more than the allocated ratio it is taken from
NoRatioUnderflow(s) ==
  \A u \in Senders, g \in GaugeAddrs :
    s.user_votes[u][g] # None =>
      /\ s.user_ratio[u] # None
      /\ unwrap(s.user_votes[u][g]).ratio <= unwrap(s.user_ratio[u])

\* C10 as stated: a vote is rejected with InsufficientVotingRatio exactly when
\* allocated - prior + new exceeds 10000.
C10_ExactlyWhenOver ==
  \A c \in VoteCalls(block_time) :
    After(Store, c).err = "InsufficientVotingRatio" <=> RatioAfter(Store, c) > MaxRatio

\* C10: a vote with a ratio of at most 10000 that is not within the vote delay
\* is rejected with InsufficientVotingRatio exactly when allocated - prior + new
\* exceeds 10000, and no other vote is rejected with that error; a total of
\* exactly 10000 is accepted by this check; the subtraction never underflows.
C10_InsufficientVotingRatio ==
  /\ NoRatioUnderflow(Store)
  /\ \A c \in VoteCalls(block_time) :
       LET err == After(Store, c).err
       IN /\ (c.msg.ratio <= MaxRatio /\ ~WithinVoteDelay(Store, c))
               => (err = "InsufficientVotingRatio" <=> RatioAfter(Store, c) > MaxRatio)
          /\ err = "InsufficientVotingRatio" => RatioAfter(Store, c) > MaxRatio

\* a voter with 5000 allocated to one gauge: 5000 more on another gauge is
\* accepted and brings the total to exactly 10000, 10000 is rejected
C10_Witness ==
  \E c \in VoteCalls(block_time), d \in VoteCalls(block_time) :
       /\ c.sender = d.sender /\ c.msg.gauge_addr = d.msg.gauge_addr
       /\ c.env = d.env
       /\ PriorOf(Store, c) = None
       /\ user_ratio[c.sender] = Some(5000)
       /\ c.msg.ratio = 5000 /\ d.msg.ratio = MaxRatio
       /\ After(Store, c).err = "Ok"
       /\ After(Store, c).st.user_ratio[c.sender] = Some(MaxRatio)
       /\ After(Store, d).err = "InsufficientVotingRatio"

-----------------------------------------------------------------------------
(* C11 *)

\* C11: a vote with a ratio above 10000 is always rejected with
\* InvalidVotingRatio, whatever the voter, gauge, lock or prior vote; no vote
\* with a ratio in 0..10000 is rejected with InvalidVotingRatio.
C11_InvalidVotingRatio ==
  InRun =>
    \A c \in VoteCalls(block_time) :
      After(Store, c).err = "InvalidVotingRatio" <=> c.msg.ratio > MaxRatio

\* a voter inside the vote delay, with the whole ratio allocated and an expired
\* lock, on a registered and on an unregistered gauge: ratio 10001 gives
\* InvalidVotingRatio on both, ratio 10000 another error
C11_Witness ==
  /\ InRun
  /\ \E c \in VoteCalls(block_time), d \in VoteCalls(block_time),
        e \in VoteCalls(block_time) :
       /\ c.sender = d.sender /\ d.sender = e.sender
       /\ c.env = d.env /\ d.env = e.env
       /\ c.msg.gauge_addr = d.msg.gauge_addr
       /\ ~check_if_exists(Store, e.msg.gauge_addr)
       /\ WithinVoteDelay(Store, c)
       /\ user_ratio[c.sender] = Some(MaxRatio)
       /\ c.env.unlock_period <= CurrentPeriod
       /\ c.msg.ratio = MaxRatio + 1 /\ e.msg.ratio = MaxRatio + 1
       /\ d.msg.ratio = MaxRatio
       /\ After(Store, c).err = "InvalidVotingRatio"
       /\ After(Store, e).err = "InvalidVotingRatio"
       /\ After(Store, d).err = "VoteTooOften"

-----------------------------------------------------------------------------
(* C12 *)

\* every vote record unlocks after the period it was cast in
RecordsUnlockLater(s) ==
  \A u \in Senders, g \in GaugeAddrs :
    s.user_votes[u][g] # None =>
      unwrap(s.user_votes[u][g]).unlock_period > unwrap(s.user_votes[u][g]).vote_period

\* the schedule entries call c adds to are at periods after the call's period
SchedulesLater(s, c) ==
  \A g \in GaugeAddrs, p \in Periods :
    After(s, c).st.slope_changes[g][p] > s.slope_changes[g][p] => p > CallPeriod(s, c)

\* C12 as stated: a vote is rejected with LockExpiresTooSoon whenever the
\* lock authority reports unlock_period <= period(now) for the voter.
C12_AlwaysLockExpiresTooSoon ==
  InRun =>
    \A c \in VoteCalls(block_time) :
      c.env.unlock_period <= CurrentPeriod => After(Store, c).err = "LockExpiresTooSoon"

\* C12: a vote whose voter's lock has unlock_period <= period(now) is always
\* rejected, with LockExpiresTooSoon when it passes the ratio, vote delay and
\* allocated ratio checks (a zero-ratio vote included), and no other vote is
\* rejected with LockExpiresTooSoon; every stored vote record has
\* unlock_period > vote_period and every scheduled slope reduction is written
\* at a period after the period of the call that wrote it.
C12_LockExpiresTooSoon ==
  /\ RecordsUnlockLater(Store)
  /\ InRun =>
       \A c \in VoteCalls(block_time) :
         LET err == After(Store, c).err
             expired == c.env.unlock_period <= CurrentPeriod
         IN /\ expired => err # "Ok"
            /\ (/\ expired
                /\ c.msg.ratio <= MaxRatio
                /\ ~WithinVoteDelay(Store, c)
                /\ RatioAfter(Store, c) <= MaxRatio) => err = "LockExpiresTooSoon"
            /\ err = "LockExpiresTooSoon" => expired
            /\ SchedulesLater(Store, c)

\* a zero-ratio vote with a lock that ends in the current period, after the
\* first period, is rejected with LockExpiresTooSoon; the same vote with a
\* lock that ends later is accepted and schedules a slope reduction
C12_Witness ==
  /\ InRun
  /\ CurrentPeriod > 0
  /\ \E c \in VoteCalls(block_time), d \in VoteCalls(block_time) :
       /\ c.sender = d.sender /\ c.msg.gauge_addr = d.msg.gauge_addr
       /\ c.msg.ratio = 0 /\ d.msg.ratio = MaxRatio
       /\ c.env.unlock_period = CurrentPeriod
       /\ After(Store, c).err = "LockExpiresTooSoon"
       /\ After(Store, d).err = "Ok"
       /\ \E p \in Periods :
            After(Store, d).st.slope_changes[d.msg.gauge_addr][p]
              > slope_changes[d.msg.gauge_addr][p]

-----------------------------------------------------------------------------
(* C13 *)

\* C13: AddGauge, ChangeGaugeWeight and UpdateConfig by a sender other than the
\* configured owner fail with Unauthorized and change nothing, for a registered
\* and for an unregistered gauge address alike; the owner is never refused as
\* Unauthorized, and VoteForGaugeWeight never is.
C13_Unauthorized ==
  InRun =>
    /\ \A c \in AdminCalls(block_time) :
         LET r == After(Store, c)
         IN /\ c.sender # config.owner => (r.err = "Unauthorized" /\ r.st = Store)
            /\ c.sender = config.owner => r.err # "Unauthorized"
    /\ \A c \in VoteCalls(block_time) : After(Store, c).err # "Unauthorized"

\* after the owner has been changed, the first owner is refused AddGauge for a
\* registered and for an unregistered address, ChangeGaugeWeight for both, and
\* UpdateConfig, while its vote for the registered gauge is accepted
C13_Witness ==
  /\ InRun
  /\ config.owner # "owner"
  /\ \E g1 \in GaugeAddrs, g2 \in GaugeAddrs, w \in Weights :
       /\ check_if_exists(Store, g1) /\ ~check_if_exists(Store, g2)
       /\ \A g \in {g1, g2} :
            /\ After(Store, Call(block_time, 0, 0, "owner", AddGaugeMsg(g, w))).err
                 = "Unauthorized"
            /\ After(Store, Call(block_time, 0, 0, "owner",
                                 ChangeGaugeWeightMsg(g, w))).err = "Unauthorized"
       /\ After(Store, Call(block_time, 0, 0, "owner",
                            UpdateConfigMsg(Some("owner"), None, None, None))).err
            = "Unauthorized"
       /\ \E c \in VoteCalls(block_time) :
            c.sender = "owner" /\ c.msg.gauge_addr = g1 /\ After(Store, c).err = "Ok"

-----------------------------------------------------------------------------
(* C14 *)

\* the gauge ids a query can ask about
GaugeIds == 0..Cardinality(GaugeAddrs)

\* ids 0..GaugeCount-1 map to pairwise distinct addresses, the addresses of the
\* gauges that have been seeded, and AllGaugeAddr lists them by id
RegistryIsSequential(s) ==
  /\ query_gauge_count(s) = Cardinality(Gauges(s))
  /\ Len(query_all_gauge_addr(s)) = query_gauge_count(s)
  /\ \A id \in GaugeIds :
       IF id >= query_gauge_count(s)
       THEN query_gauge_addr(s, id).err = "GaugeNotFound"
       ELSE /\ query_gauge_addr(s, id).err = "Ok"
            /\ query_gauge_addr(s, id).value = query_all_gauge_addr(s)[id + 1]
            /\ query_gauge_addr(s, id).value \in Gauges(s)
            /\ \A other \in GaugeIds :
                 (other < query_gauge_count(s) /\ other # id)
                   => query_gauge_addr(s, other).value # query_gauge_addr(s, id).value

\* call c leaves every assigned id with its address, and adds one id, the
\* next one, exactly when it is a successful AddGauge
RegistryGrowsBy(s, c) ==
  LET r == After(s, c)
  IN /\ \A id \in GaugeIds :
          id < query_gauge_count(s) => query_gauge_addr(r.st, id) = query_gauge_addr(s, id)
     /\ IF c.msg.type = "AddGauge" /\ r.err = "Ok"
        THEN /\ query_gauge_count(r.st) = query_gauge_count(s) + 1
             /\ query_gauge_addr(r.st, query_gauge_count(s)).value = c.msg.gauge_addr
        ELSE query_gauge_count(r.st) = query_gauge_count(s)

\* C14: GaugeCount is the number of successful AddGauge calls, ids
\* 0..GaugeCount-1 map to pairwise distinct addresses in registration order
\* (AllGaugeAddr lists them in that order), an id once assigned keeps its
\* address, and GaugeAddr(id) fails with GaugeNotFound exactly when
\* id >= GaugeCount.
C14_RegistryAppendOnly ==
  /\ RegistryIsSequential(Store)
  /\ InRun => \A c \in Calls(block_time) : RegistryGrowsBy(Store, c)

\* gauge_addr_2 has id 0; AddGauge of gauge_addr_1 is accepted and gets id 1,
\* which was not found before
C14_Witness ==
  /\ InRun
  /\ query_all_gauge_addr(Store) = <<"gauge_addr_2">>
  /\ query_gauge_addr(Store, 1).err = "GaugeNotFound"
  /\ \E c \in AdminCalls(block_time) :
       /\ c.msg.type = "AddGauge" /\ c.msg.gauge_addr = "gauge_addr_1"
       /\ After(Store, c).err = "Ok"
       /\ query_all_gauge_addr(After(Store, c).st) = <<"gauge_addr_2", "gauge_addr_1">>
       /\ query_gauge_addr(After(Store, c).st, 1).value = "gauge_addr_1"

-----------------------------------------------------------------------------
(* C15 *)

\* the AddGauge calls of the owner at time t for a gauge that is registered
RepeatedAddGauge(s, t) ==
  {c \in AdminCalls(t) :
     /\ c.msg.type = "AddGauge"
     /\ c.sender = s.config.owner
     /\ c.msg.gauge_addr \in registered(s)}

\* C15: AddGauge by the owner for a registered address fails with
\* GaugeAlreadyExists at the period of registration and at any later period,
\* and leaves GaugeCount, the ids and the gauge's checkpoints, schedule and
\* votes unchanged.
C15_GaugeAlreadyExists ==
  InRun =>
    \A t \in BlockTimes :
      t >= block_time =>
        \A c \in RepeatedAddGauge(Store, t) :
          /\ After(Store, c).err = "GaugeAlreadyExists"
          /\ After(Store, c).st = Store

\* a gauge with a live vote and a positive weight, registered in an earlier
\* period: AddGauge with weight 0 in the current period is refused
C15_Witness ==
  /\ InRun
  /\ \E c \in RepeatedAddGauge(Store, block_time) :
       LET g == c.msg.gauge_addr
       IN /\ c.msg.weight = 0
          /\ gauge_weight[g][CurrentPeriod] = None
          /\ query_gauge_weight(Store, block_time, g).value > 0
          /\ \E u \in Senders : prior_is_live(user_votes[u][g], CurrentPeriod)
          /\ After(Store, c).err = "GaugeAlreadyExists"

-----------------------------------------------------------------------------
(* C16 *)

\* call c is a vote for gauge g or a weight change of it
Touches(c, g) ==
  c.msg.type \in {"VoteForGaugeWeight", "ChangeGaugeWeight"} /\ c.msg.gauge_addr = g

\* a successful AddGauge(a, w) seeds the checkpoint of a at the period of the
\* call with bias w and slope 0, and GaugeWeightAt(a, t) is w from then on
SeedsWeight(s, c) ==
  LET r == After(s, c)
      a == c.msg.gauge_addr
  IN (c.msg.type = "AddGauge" /\ r.err = "Ok") =>
       /\ r.st.gauge_weight[a][CallPeriod(s, c)]
            = Some([bias |-> c.msg.weight, slope |-> 0])
       /\ checkpoint_periods(r.st, a) = {CallPeriod(s, c)}
       /\ \A t \in QueryTimes :
            get_period(t, s.config.period_duration) >= CallPeriod(s, c) =>
              query_gauge_weight_at(r.st, a, t) = [err |-> "Ok", value |-> c.msg.weight]

\* a call that is neither a vote for a gauge nor a weight change of it leaves
\* GaugeWeightAt of that gauge as it was, at every time
LeavesUntouched(s, c) ==
  LET r == After(s, c)
  IN \A g \in Gauges(s) :
       ~Touches(c, g) =>
         \A t \in QueryTimes :
           query_gauge_weight_at(r.st, g, t) = query_gauge_weight_at(s, g, t)

\* C16: a successful AddGauge(a, w) at period p seeds the checkpoint at p with
\* bias w and slope 0, so GaugeWeightAt(a, t) = w for every t with
\* period(t) >= p as long as no vote or ChangeGaugeWeight touches the gauge.
C16_AddGaugeSeeds ==
  InRun =>
    \A c \in Calls(block_time) : SeedsWeight(Store, c) /\ LeavesUntouched(Store, c)

\* after the first period, next to a gauge that carries a vote, a gauge is
\* added with a positive weight: it has that weight at the last period and is
\* not found at the first
C16_Witness ==
  /\ InRun
  /\ CurrentPeriod > 0
  /\ \E c \in AdminCalls(block_time) :
       LET a == c.msg.gauge_addr
           st == After(Store, c).st
       IN /\ c.msg.type = "AddGauge" /\ c.msg.weight = MaxUint128
          /\ After(Store, c).err = "Ok"
          /\ \E u \in Senders, g \in GaugeAddrs : user_votes[u][g] # None
          /\ \E t \in QueryTimes :
               /\ get_period(t, config.period_duration) = MaxPeriod
               /\ query_gauge_weight_at(st, a, t).value = MaxUint128
          /\ query_gauge_weight_at(st, a, 0).err = "GaugeNotFound"

-----------------------------------------------------------------------------
(* C17 *)

\* C17: after a successful ChangeGaugeWeight(a, w) at period p the gauge's
\* latest checkpoint is at p and GaugeWeight(a) queried in period p returns
\* exactly w, whatever votes and elapsed periods preceded the call.
C17_ChangeGaugeWeightSets ==
  InRun =>
    \A c \in AdminCalls(block_time) :
      LET r == After(Store, c)
      IN (c.msg.type = "ChangeGaugeWeight" /\ r.err = "Ok") =>
           /\ LatestPeriod(r.st, c.msg.gauge_addr) = CurrentPeriod
           /\ query_gauge_weight(r.st, block_time, c.msg.gauge_addr)
                = [err |-> "Ok", value |-> c.msg.weight]

\* a gauge that carries a positive slope from a vote of an earlier period and
\* has a positive weight now is caught up and set to the largest weight
C17_Witness ==
  /\ InRun
  /\ \E c \in AdminCalls(block_time) :
       LET a == c.msg.gauge_addr
       IN /\ c.msg.type = "ChangeGaugeWeight" /\ c.msg.weight = MaxUint128
          /\ After(Store, c).err = "Ok"
          /\ LatestPeriod(Store, a) < CurrentPeriod
          /\ unwrap(fetch_latest_checkpoint(Store, a)).weight.slope > 0
          /\ query_gauge_weight(Store, block_time, a).value \notin {0, MaxUint128}
          /\ query_gauge_weight(After(Store, c).st, block_time, a).value = MaxUint128

-----------------------------------------------------------------------------
(* C18 *)

\* vote call c passes the ratio, vote delay, allocated ratio and lock checks
PassesRatioDelayLock(s, c) ==
  /\ c.msg.ratio <= MaxRatio
  /\ ~WithinVoteDelay(s, c)
  /\ RatioAfter(s, c) <= MaxRatio
  /\ c.env.unlock_period > CallPeriod(s, c)

\* the calls at time t of the owner's ChangeGaugeWeight and of votes for a
\* gauge that was never registered
UnregisteredCalls(s, t) ==
  {c \in Calls(t) :
     /\ c.msg.type \in {"ChangeGaugeWeight", "VoteForGaugeWeight"}
     /\ c.msg.gauge_addr \notin registered(s)
     /\ c.msg.type = "ChangeGaugeWeight" => c.sender = s.config.owner}

\* the GaugeWeight and GaugeWeightAt queries fail for an unregistered gauge
QueriesNotFound(s) ==
  \A g \in GaugeAddrs \ registered(s) : \A t \in QueryTimes :
    /\ query_gauge_weight(s, t, g).err = "GaugeNotFound"
    /\ query_gauge_weight_at(s, g, t).err = "GaugeNotFound"

\* C18 as stated: ChangeGaugeWeight by the owner and a vote that passes the
\* ratio, delay and lock checks fail with GaugeNotFound for a gauge that was
\* never registered, and the queries do.
C18_AlwaysGaugeNotFound ==
  /\ QueriesNotFound(Store)
  /\ InRun =>
       \A c \in UnregisteredCalls(Store, block_time) :
         (c.msg.type = "VoteForGaugeWeight" => PassesRatioDelayLock(Store, c))
           => After(Store, c).err = "GaugeNotFound"

\* C18: for a gauge that was never registered the GaugeWeight and
\* GaugeWeightAt queries and ChangeGaugeWeight by the owner fail with
\* GaugeNotFound; a vote is always rejected, with GaugeNotFound when it passes
\* the ratio, delay, allocated ratio and lock checks and its slope does not
\* overflow; the rejected calls change nothing.
C18_GaugeNotFound ==
  /\ QueriesNotFound(Store)
  /\ InRun =>
       \A c \in UnregisteredCalls(Store, block_time) :
         LET r == After(Store, c)
         IN /\ r.err # "Ok" /\ r.st = Store
            /\ PassesEarlierChecks(Store, c) => r.err = "GaugeNotFound"

\* a voter with half the ratio allocated to a registered gauge votes the other
\* half for an unregistered one with a pending lock; the owner changes the
\* weight of the unregistered gauge: both fail with GaugeNotFound
C18_Witness ==
  /\ InRun
  /\ \E c \in UnregisteredCalls(Store, block_time),
        d \in UnregisteredCalls(Store, block_time) :
       /\ c.msg.type = "VoteForGaugeWeight" /\ d.msg.type = "ChangeGaugeWeight"
       /\ c.msg.gauge_addr = d.msg.gauge_addr
       /\ registered(Store) # {}
       /\ user_ratio[c.sender] = Some(5000) /\ c.msg.ratio = 5000
       /\ PassesEarlierChecks(Store, c)
       /\ After(Store, c).err = "GaugeNotFound"
       /\ After(Store, d).err = "GaugeNotFound"
       /\ After(Store, c).st.user_ratio = user_ratio

-----------------------------------------------------------------------------
(* C19 *)

\* the times at which every registered gauge has a weight, so that the total
\* weight is defined
DefinedTimes(s) ==
  {t \in QueryTimes : registered(s) # {} /\ query_total_weight_at(s, t).err = "Ok"}

\* the relative weight of g at t is TotalWeightIsZero for a zero total and the
\* quotient of the two weights, between 0 and 1, otherwise
RelativeIsQuotient(s, g, t) ==
  LET gw == query_gauge_weight_at(s, g, t).value
      tw == query_total_weight_at(s, t).value
      rel == query_gauge_relative_weight_at(s, g, t)
  IN /\ rel.err = "TotalWeightIsZero" <=> tw = 0
     /\ rel.err \in {"TotalWeightIsZero", "Ok"}
     /\ rel.err = "Ok" =>
          /\ rel.value * tw <= gw * DecimalFractional
          /\ (rel.value + 1) * tw > gw * DecimalFractional
          /\ rel.value >= 0 /\ rel.value <= DecimalFractional

\* the sum of the relative weights of the registered gauges at t
RelativeSum(s, t) ==
  SumOver(registered(s),
          [g \in registered(s) |-> query_gauge_relative_weight_at(s, g, t).value])

\* each quotient is rounded down by less than one atomic unit
SumsToOne(s, t) ==
  query_total_weight_at(s, t).value > 0 =>
    /\ RelativeSum(s, t) <= DecimalFractional
    /\ RelativeSum(s, t) > DecimalFractional - Cardinality(registered(s))

-----------------------------------------------------------------------------
(* C20 *)

\* the times whose period is at or after the latest checkpoint of g
LaterTimes(s, g) ==
  {t \in QueryTimes : get_period(t, s.config.period_duration) >= LatestPeriod(s, g)}

\* from the latest checkpoint of g onward the weight never increases, and
\* once it is zero it stays zero
DecaysToFloor(s, g) ==
  \A t \in LaterTimes(s, g), u \in LaterTimes(s, g) :
    t <= u =>
      LET wt == query_gauge_weight_at(s, g, t)
          wu == query_gauge_weight_at(s, g, u)
      IN /\ wt.err = "Ok" /\ wu.err = "Ok"
         /\ wu.value <= wt.value
         /\ wt.value = 0 => wu.value = 0

\* the owner's calls ChangeGaugeWeight(g, 0) on a gauge with a positive weight
\* that carries a positive slope at the block's period
ZeroingCalls(s, t) ==
  {c \in AdminCalls(t) :
     /\ c.msg.type = "ChangeGaugeWeight" /\ c.msg.weight = 0
     /\ check_if_exists(s, c.msg.gauge_addr)
     /\ LET r == checkpoint_gauge(s, c.msg.gauge_addr, CallPeriod(s, c))
        IN /\ r.err = "Ok"
           /\ unwrap(fetch_latest_checkpoint(r.st, c.msg.gauge_addr)).weight.slope > 0
           /\ unwrap(fetch_latest_checkpoint(r.st, c.msg.gauge_addr)).weight.bias > 0}

\* C20: with no intervening mutation GaugeWeightAt(g, t) is non-increasing in
\* t from the latest checkpoint of g onward and stays zero once it is zero;
\* after a successful ChangeGaugeWeight(g, 0) on a gauge that still carries a
\* positive slope the weight is 0 at the block's period and every later one.
C20_DecayReachesFloor ==
  /\ \A g \in Gauges(Store) : DecaysToFloor(Store, g)
  /\ InRun =>
       \A c \in ZeroingCalls(Store, block_time) :
         LET r == After(Store, c)
         IN r.err = "Ok" =>
              \A t \in QueryTimes :
                t >= block_time =>
                  query_gauge_weight_at(r.st, c.msg.gauge_addr, t)
                    = [err |-> "Ok", value |-> 0]

\* a gauge whose positive weight decays to zero at a later period, and the
\* owner's ChangeGaugeWeight(g, 0) on it while its slope is positive
C20_Witness ==
  /\ InRun
  /\ \E c \in ZeroingCalls(Store, block_time) :
       LET g == c.msg.gauge_addr
       IN /\ After(Store, c).err = "Ok"
          /\ c.sender = config.owner
          /\ query_gauge_weight_at(Store, g, block_time).value > 0
          /\ \E t \in LaterTimes(Store, g), u \in LaterTimes(Store, g) :
               /\ t < u /\ block_time < t
               /\ query_gauge_weight_at(Store, g, t).value
                    < query_gauge_weight_at(Store, g, block_time).value
               /\ query_gauge_weight_at(Store, g, t).value = 0
               /\ query_gauge_weight_at(Store, g, u).value = 0
          /\ \A t \in QueryTimes :
               t >= block_time =>
                 query_gauge_weight_at(After(Store, c).st, g, t).value = 0

-----------------------------------------------------------------------------
(* C21 *)

\* the slope vote call c asks for, before the dust check
AskedSlope(c) ==
  from_ratio(c.msg.ratio * c.env.full_slope, MaxRatio * DecimalFractional)

\* the bias contribution of vote call c rounds to zero
IsDust(s, c) ==
  rounded_mul(AskedSlope(c), c.env.unlock_period - CallPeriod(s, c)) = 0

\* the successful dust votes that can be cast now
DustVotes(s, t) ==
  {c \in VoteCalls(t) : After(s, c).err = "Ok" /\ IsDust(s, c)}

\* the sender of c has a vote on the gauge that still decays, with a slope
HasLivePrior(s, c) ==
  /\ prior_is_live(PriorOf(s, c), CallPeriod(s, c))
  /\ unwrap(PriorOf(s, c)).slope > 0

\* the weights of g from time t on are the same in s1 and s2
SameWeightsFrom(s1, s2, g, t) ==
  \A u \in QueryTimes :
    u >= t => query_gauge_weight_at(s1, g, u) = query_gauge_weight_at(s2, g, u)

\* the weights of g from time t on are at least as large in s1 as in s2
NoFasterFrom(s1, s2, g, t) ==
  \A u \in QueryTimes :
    u >= t => query_gauge_weight_at(s1, g, u).value >= query_gauge_weight_at(s2, g, u).value

\* the record of a dust vote has slope 0 and nothing is added to the schedule
DustStoresNothing(s, c) ==
  LET r == After(s, c)
      g == c.msg.gauge_addr
  IN /\ unwrap(r.st.user_votes[c.sender][g]).slope = 0
     /\ \A q \in Periods : r.st.slope_changes[g][q] <= s.slope_changes[g][q]
     /\ ~HasLivePrior(s, c) => r.st.slope_changes[g] = s.slope_changes[g]

-----------------------------------------------------------------------------
(* C22 *)
(* In SpecRevote, twin before the re-vote is the run in which the voter never
   voted for the gauge. *)

\* the voter of the two votes
Revoter == unwrap(first_vote).sender

\* the step is the re-vote, with ratio 0, of a first vote with a positive ratio
ZeroReVote ==
  /\ phase = "voted" /\ phase' = "revoted"
  /\ unwrap(first_vote).vote.ratio > 0
  /\ unwrap(user_votes'[Revoter][RevotedGauge]).ratio = 0

\* the never-voted run with the gauge caught up to the current period
TwinCaughtUp == checkpoint_gauge(twin, RevotedGauge, CurrentPeriod).st

-----------------------------------------------------------------------------
(* C23 *)

\* the first time of period p
TimeOf(s, p) == p * s.config.period_duration

\* the largest unlock period of the vote records on g, and at least the
\* period of the latest checkpoint of g
LastUnlock(s, g) ==
  SetMax({LatestPeriod(s, g)}
         \cup {unwrap(s.user_votes[u][g]).unlock_period :
                 u \in {v \in Senders : s.user_votes[v][g] # None}})

\* from the last unlock period on g has no slope and its weight stays as it is
DecayedOut(s, g) ==
  LET U == LastUnlock(s, g)
  IN /\ unwrap(fetch_latest_checkpoint(checkpoint_gauge(s, g, U).st, g)).weight.slope = 0
     /\ \A t \in QueryTimes :
          get_period(t, s.config.period_duration) >= U =>
            query_gauge_weight_at(s, g, t) = query_gauge_weight_at(s, g, TimeOf(s, U))

\* from the last unlock period of all gauges on the total weight stays as it is
TotalDecayedOut(s) ==
  Gauges(s) # {} =>
    LET U == SetMax({LastUnlock(s, g) : g \in Gauges(s)})
    IN \A t \in QueryTimes :
         get_period(t, s.config.period_duration) >= U =>
           query_total_weight_at(s, t) = query_total_weight_at(s, TimeOf(s, U))

\* gauge g has its first checkpoint only, at the current period, and no votes
IsFresh(s, g) ==
  /\ checkpoint_periods(s, g) = {CurrentPeriod}
  /\ \A u \in Senders : s.user_votes[u][g] = None

\* C23 as stated, for a gauge registered with weight w that gets two votes:
\* at every period at or after the larger unlock period of the votes cast for
\* it GaugeWeightAt returns exactly w.
C23_BackToBaseWeight ==
  calls = 1 =>
    \A g \in Gauges(Store) :
      IsFresh(Store, g) =>
        \A c \in VoteCalls(block_time), t2 \in BlockTimes :
          t2 >= block_time =>
            \A d \in VoteCalls(t2) :
              LET s1 == After(Store, c)
                  s2 == After(s1.st, d)
                  w == unwrap(fetch_latest_checkpoint(Store, g)).weight.bias
              IN (/\ c.msg.gauge_addr = g /\ d.msg.gauge_addr = g
                  /\ s1.err = "Ok" /\ s2.err = "Ok") =>
                   \A t \in QueryTimes :
                     get_period(t, config.period_duration)
                       >= SetMax({c.env.unlock_period, d.env.unlock_period}) =>
                         query_gauge_weight_at(s2.st, g, t) = [err |-> "Ok", value |-> w]

\* C23: at every period at or after the largest unlock period of the votes on
\* a gauge the gauge has no slope left and GaugeWeightAt returns one and the
\* same value, and TotalWeightAt does from the largest unlock period of all
\* gauges on, whether or not a catch-up was written in between.
C23_VotesDecayOut ==
  /\ \A g \in Gauges(Store) : DecayedOut(Store, g)
  /\ TotalDecayedOut(Store)

\* a gauge with a vote that has a slope, caught up to a period before the
\* vote's unlock period, that weighs less at the unlock period than now
C23_Witness ==
  \E g \in Gauges(Store), u \in Senders :
    /\ user_votes[u][g] # None
    /\ unwrap(user_votes[u][g]).slope > 0
    /\ unwrap(user_votes[u][g]).vote_period < LatestPeriod(Store, g)
    /\ LatestPeriod(Store, g) < LastUnlock(Store, g)
    /\ query_gauge_weight_at(Store, g, TimeOf(Store, LastUnlock(Store, g))).value
         < query_gauge_weight_at(Store, g, block_time).value

-----------------------------------------------------------------------------
(* C25 *)

\* the product ratio * full_slope of vote call c does not fit a Uint128
SlopeOverflows(c) == c.msg.ratio * c.env.full_slope > MaxUint128

\* the bias contribution of vote call c does not fit a Uint128
ContributionOverflows(s, c) ==
  rounded_mul(AskedSlope(c), c.env.unlock_period - CallPeriod(s, c)) > MaxUint128

\* the caught-up bias of the gauge plus the contribution of vote call c does
\* not fit a Uint128
BiasOverflows(s, c) ==
  LET r == checkpoint_gauge(s, c.msg.gauge_addr, CallPeriod(s, c))
      dt == c.env.unlock_period - CallPeriod(s, c)
  IN /\ r.err = "Ok"
     /\ unwrap(fetch_latest_checkpoint(r.st, c.msg.gauge_addr)).weight.bias
          + rounded_mul(new_vote_slope(AskedSlope(c), dt), dt) > MaxUint128

\* the votes that pass the ratio, delay, allocated ratio and lock checks and
\* overflow in the slope, the contribution or the bias
OverflowingVotes(s, t) ==
  {c \in VoteCalls(t) :
     /\ PassesRatioDelayLock(s, c)
     /\ \/ SlopeOverflows(c)
        \/ check_if_exists(s, c.msg.gauge_addr)
             /\ LatestPeriod(s, c.msg.gauge_addr) <= CallPeriod(s, c)
             /\ (ContributionOverflows(s, c) \/ BiasOverflows(s, c))}

\* C25 as stated: a vote whose slope, bias contribution or new gauge bias
\* overflows is rejected with the arithmetic overflow error and changes nothing.
C25_OverflowError ==
  InRun =>
    \A c \in OverflowingVotes(Store, block_time) :
      After(Store, c) = Err("Overflow", Store)

\* C25: a vote that passes the ratio, delay, allocated ratio and lock checks
\* and whose slope or bias contribution overflows is rejected with the
\* arithmetic overflow error; one whose contribution does not fit on top of the
\* gauge's bias is aborted by the panic of the addition; neither stores a
\* wrapped or truncated value and neither changes the state.
C25_OverflowRejected ==
  InRun =>
    \A c \in OverflowingVotes(Store, block_time) :
      LET r == After(Store, c)
      IN /\ r.st = Store
         /\ r.err = IF SlopeOverflows(c) \/ ContributionOverflows(Store, c)
                    THEN "Overflow" ELSE "Panic"

\* a vote whose slope overflows, and a vote with a positive contribution for a
\* gauge whose bias is the largest Uint128
C25_Witness ==
  /\ InRun
  /\ \E c \in OverflowingVotes(Store, block_time),
        d \in OverflowingVotes(Store, block_time) :
       /\ SlopeOverflows(c) /\ After(Store, c).err = "Overflow"
       /\ ~SlopeOverflows(d) /\ BiasOverflows(Store, d)
       /\ query_gauge_weight(Store, block_time, d.msg.gauge_addr)
            = [err |-> "Ok", value |-> MaxUint128]
       /\ After(Store, d).err = "Panic"

-----------------------------------------------------------------------------
(* C26 *)

\* the record a successful vote call c writes
RecordOf(s, c) ==
  LET dt == c.env.unlock_period - CallPeriod(s, c)
  IN Some([slope |-> new_vote_slope(AskedSlope(c), dt),
           vote_period |-> CallPeriod(s, c),
           unlock_period |-> c.env.unlock_period,
           ratio |-> c.msg.ratio])

\* a successful vote writes its record and leaves every other record alone
WritesItsRecord(s, c) ==
  LET r == After(s, c)
  IN \A u \in Senders, g \in GaugeAddrs :
       r.st.user_votes[u][g] =
         IF u = c.sender /\ g = c.msg.gauge_addr THEN RecordOf(s, c)
         ELSE s.user_votes[u][g]

\* no call deletes a record
KeepsRecords(s, c) ==
  \A u \in Senders, g \in GaugeAddrs :
    s.user_votes[u][g] # None => After(s, c).st.user_votes[u][g] # None

\* after a successful vote the same vote is refused while the delay runs
RestartsDelay(s, c) ==
  s.config.user_vote_delay > 0 =>
    After(After(s, c).st, c).err = "VoteTooOften"

\* C26: every successful VoteForGaugeWeight(g, ratio) by v at period p leaves
\* for (v, g) exactly the record {slope: new slope, vote_period: p,
\* unlock_period: the lock's unlock period, ratio}, also for ratio 0, and
\* restarts the re-vote delay of the pair; no call deletes a record or touches
\* the record of another pair.
C26_VoteRecord ==
  InRun =>
    /\ \A c \in VoteCalls(block_time) :
         After(Store, c).err = "Ok" =>
           WritesItsRecord(Store, c) /\ RestartsDelay(Store, c)
    /\ \A c \in Calls(block_time) : KeepsRecords(Store, c)

\* a voter with a positive ratio on a gauge votes ratio 0 for it: the record
\* is overwritten by one with ratio 0 and the delay runs anew
C26_Witness ==
  /\ InRun
  /\ config.user_vote_delay > 0
  /\ \E c \in VoteCalls(block_time) :
       /\ After(Store, c).err = "Ok"
       /\ c.msg.ratio = 0
       /\ PriorOf(Store, c) # None
       /\ unwrap(PriorOf(Store, c)).ratio > 0
       /\ unwrap(PriorOf(Store, c)).slope > 0
       /\ PriorOf(After(Store, c).st, c)
            = Some([slope |-> 0, vote_period |-> CurrentPeriod,
                    unlock_period |-> c.env.unlock_period, ratio |-> 0])
       /\ After(After(Store, c).st, c).err = "VoteTooOften"

-----------------------------------------------------------------------------
(* C27 *)

Max0(x) == IF x > 0 THEN x ELSE 0

\* the checkpoint of the gauge of vote call c caught up to the call's period
CaughtUp(s, c) ==
  unwrap(fetch_latest_checkpoint(
           checkpoint_gauge(s, c.msg.gauge_addr, CallPeriod(s, c)).st,
           c.msg.gauge_addr)).weight

\* the checkpoint and the schedule a successful vote call c leaves, from the
\* caught-up checkpoint (b, s), the new slope n and the prior record
VoteArithmetic(st, c) ==
  LET g == c.msg.gauge_addr
      p == CallPeriod(st, c)
      b == CaughtUp(st, c).bias
      s == CaughtUp(st, c).slope
      dt == c.env.unlock_period - p
      n == unwrap(RecordOf(st, c)).slope
      prior == PriorOf(st, c)
      live == prior # None /\ unwrap(prior).unlock_period > p
      o == unwrap(prior).slope
      u == unwrap(prior).unlock_period
      after == After(st, c).st
  IN /\ after.gauge_weight[g][p] =
          IF live
          THEN Some([bias |-> Max0(b + rounded_mul(n, dt) - rounded_mul(o, u - p)),
                     slope |-> Max0(s + n - o)])
          ELSE Some([bias |-> b + rounded_mul(n, dt), slope |-> s + n])
     /\ \A q \in Periods :
          after.slope_changes[g][q] =
            Max0(st.slope_changes[g][q] + (IF q = c.env.unlock_period THEN n ELSE 0)
                   - (IF live /\ q = u THEN o ELSE 0))

\* C27: a successful vote at period p on a gauge with caught-up checkpoint
\* (b, s), new slope n, dt = unlock - p and a prior record with slope o and
\* unlock u > p stores at p the bias max(b + n*dt - o*(u - p), 0) and the slope
\* max(s + n - o, 0), schedules n at unlock and cancels o at u; with no prior
\* record or with u <= p it stores b + n*dt and s + n and cancels nothing.
C27_VoteArithmetic ==
  InRun =>
    \A c \in VoteCalls(block_time) :
      After(Store, c).err = "Ok" => VoteArithmetic(Store, c)

\* a vote with a positive slope replaces, in a later period, a live vote with
\* a positive slope whose remainder is more than the caught-up bias
C27_Witness ==
  /\ InRun
  /\ \E c \in VoteCalls(block_time) :
       /\ After(Store, c).err = "Ok"
       /\ unwrap(RecordOf(Store, c)).slope > 0
       /\ HasLivePrior(Store, c)
       /\ LatestPeriod(Store, c.msg.gauge_addr) < CurrentPeriod
       /\ CaughtUp(Store, c).bias
            < rounded_mul(unwrap(PriorOf(Store, c)).slope,
                          unwrap(PriorOf(Store, c)).unlock_period - CurrentPeriod)
       /\ CaughtUp(Store, c).slope > 0

-----------------------------------------------------------------------------
(* C28 *)

\* the latest checkpoint of g after a catch-up of s to period p
CatchUpTo(s, g, p) == unwrap(fetch_latest_checkpoint(checkpoint_gauge(s, g, p).st, g)).weight

\* the latest checkpoint of g after a catch-up to p1 and then to p2
CatchUpVia(s, g, p1, p2) == CatchUpTo(checkpoint_gauge(s, g, p1).st, g, p2)

\* Period-by-period iteration in exact arithmetic, bias and slope both in
\* atomics: the bias loses the slope, then the slope loses the reduction
\* scheduled at p.
RECURSIVE Iterate(_, _, _, _)
Iterate(weight, sched, p, target) ==
  IF p > target THEN weight
  ELSE Iterate([bias |-> Max0(weight.bias - weight.slope),
                slope |-> Max0(weight.slope - sched[p])],
               sched, p + 1, target)

\* the iteration of g from its latest checkpoint to period p
IterateTo(s, g, p) ==
  LET last == unwrap(fetch_latest_checkpoint(s, g))
  IN Iterate([bias |-> last.weight.bias * DecimalFractional, slope |-> last.weight.slope],
             s.slope_changes[g], last.period + 1, p)

Abs(x) == IF x < 0 THEN 0 - x ELSE x

\* the pairs of periods a gauge can be caught up to, one after the other
CatchUpPairs(s, g) ==
  {pp \in Periods \X Periods : LatestPeriod(s, g) <= pp[1] /\ pp[1] <= pp[2]}

\* C28 as stated, in its first half: catching up to P1 and then to P2 yields
\* the checkpoint (bias and slope) of catching up directly to P2.
C28_ComposesExactly ==
  \A g \in Gauges(Store) : \A pp \in CatchUpPairs(Store, g) :
    CatchUpVia(Store, g, pp[1], pp[2]) = CatchUpTo(Store, g, pp[2])

\* C28: for a gauge with latest checkpoint L and periods L <= P1 <= P2,
\* catching up to P1 and then to P2 yields the slope of catching up directly
\* to P2, which is the slope of the period-by-period iteration; the two biases
\* differ by at most one unit, and each differs from the iterated bias by at
\* most half a unit for every period stepped over.
C28_ComposesUpToRounding ==
  \A g \in Gauges(Store) : \A pp \in CatchUpPairs(Store, g) :
    LET via == CatchUpVia(Store, g, pp[1], pp[2])
        direct == CatchUpTo(Store, g, pp[2])
        iter == IterateTo(Store, g, pp[2])
        gap == pp[2] - LatestPeriod(Store, g)
    IN /\ via.slope = direct.slope /\ direct.slope = iter.slope
       /\ Abs(via.bias - direct.bias) <= 1
       /\ 2 * Abs(direct.bias * DecimalFractional - iter.bias) <= gap * DecimalFractional
       /\ 2 * Abs(via.bias * DecimalFractional - iter.bias) <= gap * DecimalFractional

\* a gauge with a slope whose reduction is scheduled two periods after its
\* latest checkpoint: the catch-up in two steps keeps a unit of bias that the
\* direct one takes off
C28_Witness ==
  \E g \in Gauges(Store) : \E pp \in CatchUpPairs(Store, g) :
    /\ LatestPeriod(Store, g) < pp[1] /\ pp[1] < pp[2]
    /\ slope_changes[g][pp[2]] > 0
    /\ unwrap(fetch_latest_checkpoint(Store, g)).weight.slope > 0
    /\ CatchUpTo(Store, g, pp[2]).slope = 0
    /\ CatchUpVia(Store, g, pp[1], pp[2]).bias = CatchUpTo(Store, g, pp[2]).bias + 1

-----------------------------------------------------------------------------
(* C29 *)

\* the sum of the slopes of the vote records on g that unlock after period p
LiveSlope(s, g, p) ==
  SumOver({u \in Senders : /\ s.user_votes[u][g] # None
                           /\ unwrap(s.user_votes[u][g]).unlock_period > p},
          [u \in Senders |-> unwrap_or(s.user_votes[u][g], [slope |-> 0]).slope])

\* the slope of the latest checkpoint of g is the slope of its live votes
SlopeMatchesVotes(s, g) ==
  unwrap(fetch_latest_checkpoint(s, g)).weight.slope = LiveSlope(s, g, LatestPeriod(s, g))

\* no step of a catch-up of g finds a scheduled reduction above the slope
CatchUpNeverSaturates(s, g) ==
  \A p \in Periods :
    p > LatestPeriod(s, g) => CatchUpTo(s, g, p - 1).slope >= s.slope_changes[g][p]

\* the removal of a live prior vote by vote call c finds its slope in the gauge's
ReVoteNeverSaturates(s, c) ==
  (After(s, c).err = "Ok" /\ prior_is_live(PriorOf(s, c), CallPeriod(s, c))) =>
    CaughtUp(s, c).slope + unwrap(RecordOf(s, c)).slope >= unwrap(PriorOf(s, c)).slope

-----------------------------------------------------------------------------
(* C30 *)

\* the times of the periods before the current one
PastTimes ==
  {t \in QueryTimes : get_period(t, config.period_duration) < CurrentPeriod}

\* the successful votes and ChangeGaugeWeight calls that can be made now
Mutations(s, t) ==
  {c \in Calls(t) :
     /\ c.msg.type \in {"VoteForGaugeWeight", "ChangeGaugeWeight"}
     /\ After(s, c).err = "Ok"}

\* the answers of GaugeWeightAt and TotalWeightAt at time t are the same in
\* s1 and s2
SameHistoryAt(s1, s2, t) ==
  /\ \A g \in GaugeAddrs :
       query_gauge_weight_at(s1, g, t) = query_gauge_weight_at(s2, g, t)
  /\ query_total_weight_at(s1, t) = query_total_weight_at(s2, t)

\* C30: a successful vote or ChangeGaugeWeight made at period p changes the
\* answer of GaugeWeightAt(g, t) and of TotalWeightAt(t) for no gauge g and no
\* time t of a period before p.
C30_HistoryIsImmutable ==
  InRun =>
    \A c \in Mutations(Store, block_time) : \A t \in PastTimes :
      SameHistoryAt(After(Store, c).st, Store, t)

\* a ChangeGaugeWeight on a gauge that had a positive weight in the period
\* before changes its weight now and leaves the weight of that period
C30_Witness ==
  /\ InRun
  /\ \E c \in Mutations(Store, block_time), t \in PastTimes :
       LET g == c.msg.gauge_addr
       IN /\ c.msg.type = "ChangeGaugeWeight"
          /\ LatestPeriod(Store, g) < CurrentPeriod
          /\ query_gauge_weight_at(Store, g, t).err = "Ok"
          /\ query_gauge_weight_at(Store, g, t).value > 0
          /\ query_total_weight_at(Store, t).err = "Ok"
          /\ query_gauge_weight_at(After(Store, c).st, g, block_time)
               # query_gauge_weight_at(Store, g, block_time)
          /\ SameHistoryAt(After(Store, c).st, Store, t)

-----------------------------------------------------------------------------
(* C31 *)

\* the votes that succeed on storage s in a block of time t
SuccessfulVotes(s, t) == {c \in VoteCalls(t) : After(s, c).err = "Ok"}

\* outside gauge g, the record (v, g) and the allocated ratio of v, storage s2
\* is storage s1: the checkpoints, schedules and weights of the other gauges,
\* the records and ratios of the other voters, the records of v on the other
\* gauges, the registry and the config
VoteFrame(s1, s2, v, g) ==
  /\ \A h \in GaugeAddrs \ {g} :
       /\ s2.gauge_weight[h] = s1.gauge_weight[h]
       /\ s2.slope_changes[h] = s1.slope_changes[h]
       /\ \A t \in QueryTimes :
            query_gauge_weight_at(s2, h, t) = query_gauge_weight_at(s1, h, t)
       /\ s2.user_votes[v][h] = s1.user_votes[v][h]
  /\ \A u \in Senders \ {v} :
       /\ s2.user_votes[u] = s1.user_votes[u]
       /\ s2.user_ratio[u] = s1.user_ratio[u]
  /\ s2.gauge_addr = s1.gauge_addr
  /\ s2.config = s1.config

\* C31: a successful VoteForGaugeWeight by voter v on gauge g changes only the
\* checkpoints and the schedule of g, the record (v, g) and the allocated
\* ratio of v; the checkpoints, schedules and weights (at every time) of every
\* other gauge, the records and allocated ratios of every other voter, the
\* records of v on the other gauges, the registry and the config stay as they
\* were.
C31_VoteFrame ==
  \A c \in SuccessfulVotes(Store, block_time) :
    VoteFrame(Store, After(Store, c).st, c.sender, c.msg.gauge_addr)

\* a voter with a live vote on one gauge votes on another gauge: the vote
\* changes the checkpoint and the schedule of its gauge and the ratio of the
\* voter, while the other gauge keeps its votes, its schedule and its weight
C31_Witness ==
  \E c \in SuccessfulVotes(Store, block_time) :
    LET v == c.sender
        g == c.msg.gauge_addr
        st == After(Store, c).st
    IN \E h \in Gauges(Store) \ {g} :
         /\ Store.user_votes[v][h] # None
         /\ unwrap(Store.user_votes[v][h]).slope > 0
         /\ \E p \in Periods : Store.slope_changes[h][p] > 0
         /\ query_gauge_weight_at(Store, h, block_time).value > 0
         /\ st.gauge_weight[g] # Store.gauge_weight[g]
         /\ st.slope_changes[g] # Store.slope_changes[g]
         /\ st.user_votes[v][g] # Store.user_votes[v][g]
         /\ st.user_ratio[v] # Store.user_ratio[v]
         /\ VoteFrame(Store, st, v, g)

-----------------------------------------------------------------------------
(* C32 *)

\* the ChangeGaugeWeight calls that succeed on storage s in a block of time t
WeightChanges(s, t) ==
  {c \in AdminCalls(t) : c.msg.type = "ChangeGaugeWeight" /\ After(s, c).err = "Ok"}

\* the checkpoint a successful ChangeGaugeWeight(a, w) call c leaves at its
\* period is (w, the caught-up slope); the schedules, the vote records, the
\* allocated ratios and the other gauges are as before
ReplacesOnlyBias(s, c) ==
  LET a == c.msg.gauge_addr
      p == CallPeriod(s, c)
      st == After(s, c).st
  IN /\ st.gauge_weight[a][p]
          = Some([bias |-> c.msg.weight, slope |-> CatchUpTo(s, a, p).slope])
     /\ st.slope_changes = s.slope_changes
     /\ st.user_votes = s.user_votes
     /\ st.user_ratio = s.user_ratio
     /\ \A h \in GaugeAddrs \ {a} : st.gauge_weight[h] = s.gauge_weight[h]

\* no reduction of the slope of a is scheduled after period p and before q
NoReductionBetween(s, a, p, q) ==
  \A x \in Periods : (p < x /\ x < q) => s.slope_changes[a][x] = 0

\* after a successful ChangeGaugeWeight(a, w) call c at period p the weight at
\* a later period q is w less the slope of the live votes times q - p, as far
\* as no reduction of the slope lies in between
KeepsDecaying(s, c) ==
  LET a == c.msg.gauge_addr
      p == CallPeriod(s, c)
      st == After(s, c).st
  IN \A t \in QueryTimes :
       LET q == get_period(t, s.config.period_duration)
       IN (q >= p /\ NoReductionBetween(s, a, p, q)) =>
            query_gauge_weight_at(st, a, t) =
              [err |-> "Ok",
               value |-> saturating_sub(c.msg.weight,
                                        rounded_mul(LiveSlope(s, a, p), q - p))]

\* the successful votes for gauge a by voters whose record of before, on
\* storage s0, is still live, in a block of time t on storage s
ReVotes(s0, s, a, t) ==
  {d \in SuccessfulVotes(s, t) :
     /\ d.msg.gauge_addr = a
     /\ prior_is_live(PriorOf(s0, d), CallPeriod(s, d))}

\* a re-vote d after a successful ChangeGaugeWeight(a, w) call c takes the
\* remainder of the voter's old record off the weight that w has decayed to,
\* with its new contribution added, and stops at zero
ReVoteSubtracts(s, c) ==
  LET a == c.msg.gauge_addr
      st == After(s, c).st
  IN \A t \in BlockTimes :
       t >= c.env.time =>
         \A d \in ReVotes(s, st, a, t) :
           LET p == CallPeriod(st, d)
               old == unwrap(PriorOf(s, d))
               new == unwrap(RecordOf(st, d))
           IN unwrap(After(st, d).st.gauge_weight[a][p]).bias =
                Max0(query_gauge_weight_at(st, a, t).value
                       + rounded_mul(new.slope, new.unlock_period - p)
                       - rounded_mul(old.slope, old.unlock_period - p))

\* C32: a successful ChangeGaugeWeight(a, w) replaces only the bias: the
\* caught-up slope of the gauge at the period of the call, its scheduled slope
\* reductions, all vote records and allocated ratios and all other gauges are
\* unchanged, so that w keeps decaying by the slope of the live votes in later
\* periods, and a later re-vote of an existing voter still takes the remainder
\* of that voter's old contribution off w, stopping at zero.
C32_ReplacesOnlyBias ==
  \A c \in WeightChanges(Store, block_time) :
    /\ ReplacesOnlyBias(Store, c)
    /\ KeepsDecaying(Store, c)
    /\ ReVoteSubtracts(Store, c)

\* a gauge carries a live vote with a positive slope: set to the largest
\* weight it has less than that in a later period, and the withdrawal of the
\* vote takes the remainder of the vote off it; set to zero, the withdrawal
\* has more to take off than the weight holds
C32_Witness ==
  \E c \in WeightChanges(Store, block_time), c0 \in WeightChanges(Store, block_time) :
    LET a == c.msg.gauge_addr
        st == After(Store, c).st
        st0 == After(Store, c0).st
    IN /\ c.msg.weight = MaxUint128
       /\ c0.msg.weight = 0 /\ c0.msg.gauge_addr = a
       /\ CatchUpTo(Store, a, CurrentPeriod).slope > 0
       /\ query_gauge_weight_at(Store, a, block_time).value \notin {0, MaxUint128}
       /\ \E t \in QueryTimes :
            /\ query_gauge_weight_at(st, a, t).err = "Ok"
            /\ query_gauge_weight_at(st, a, t).value < MaxUint128
       /\ \E d \in ReVotes(Store, st, a, block_time) :
            /\ rounded_mul(unwrap(PriorOf(Store, d)).slope,
                           unwrap(PriorOf(Store, d)).unlock_period - CurrentPeriod) > 0
            /\ unwrap(After(st, d).st.gauge_weight[a][CurrentPeriod]).bias
                 \notin {0, MaxUint128}
       /\ \E d \in ReVotes(Store, st0, a, block_time) :
            /\ rounded_mul(unwrap(PriorOf(Store, d)).slope,
                           unwrap(PriorOf(Store, d)).unlock_period - CurrentPeriod)
                 > rounded_mul(unwrap(RecordOf(st0, d)).slope,
                               unwrap(RecordOf(st0, d)).unlock_period - CurrentPeriod)
            /\ unwrap(After(st0, d).st.gauge_weight[a][CurrentPeriod]).bias = 0
       /\ ReplacesOnlyBias(Store, c)

-----------------------------------------------------------------------------
(* C33 *)

\* an optional value of set S
Optional(S) == {None} \cup {Some(x) : x \in S}

\* the vote delays an UpdateConfig can supply
NewVoteDelays == VoteDelays \cup {MaxPeriod}

\* the UpdateConfig calls that can be made in a block of time t
ConfigCalls(t) ==
  {Call(t, 0, 0, v, UpdateConfigMsg(o, a, e, d)) :
     v \in Senders, o \in Optional(Senders), a \in Optional({"anchor2.0"}),
     e \in Optional({"voting_escrow2.0"}), d \in Optional(NewVoteDelays)}

\* the UpdateConfig calls of the owner of storage s
OwnerConfigCalls(s, t) == {c \in ConfigCalls(t) : c.sender = s.config.owner}

\* the field after an UpdateConfig: the value supplied, or the old one
Supplied(old, opt) == IF opt = None THEN old ELSE opt[1]

\* UpdateConfig call c of the owner sets the fields it supplies and leaves the
\* other fields, the period duration and the rest of the storage
UpdatesSupplied(s, c) ==
  LET r == After(s, c)
  IN /\ r.err = "Ok"
     /\ r.st.config.owner = Supplied(s.config.owner, c.msg.owner)
     /\ r.st.config.anchor_token = Supplied(s.config.anchor_token, c.msg.anchor_token)
     /\ r.st.config.anchor_voting_escrow
          = Supplied(s.config.anchor_voting_escrow, c.msg.anchor_voting_escrow)
     /\ r.st.config.user_vote_delay
          = Supplied(s.config.user_vote_delay, c.msg.user_vote_delay)
     /\ r.st.config.period_duration = s.config.period_duration
     /\ r.st.gauge_addr = s.gauge_addr
     /\ r.st.gauge_weight = s.gauge_weight
     /\ r.st.slope_changes = s.slope_changes
     /\ r.st.user_votes = s.user_votes
     /\ r.st.user_ratio = s.user_ratio

\* the owner-gated calls that can be made in a block of time t
OwnerGatedCalls(t) == AdminCalls(t) \cup ConfigCalls(t)

\* the block times from time t on
BlockTimesFrom(t) == {x \in BlockTimes : x >= t}

\* after UpdateConfig call c has changed the owner, an owner-gated call of the
\* previous owner is Unauthorized and one of the new owner is not: its
\* UpdateConfig succeeds, and so does its AddGauge of a gauge that is not there
OwnerHandover(s, c) ==
  LET st == After(s, c).st
  IN st.config.owner # s.config.owner =>
       \A t \in BlockTimesFrom(c.env.time) : \A e \in OwnerGatedCalls(t) :
         /\ e.sender = s.config.owner => After(st, e).err = "Unauthorized"
         /\ e.sender = st.config.owner =>
              /\ After(st, e).err # "Unauthorized"
              /\ e.msg.type = "UpdateConfig" => After(st, e).err = "Ok"
              /\ (e.msg.type = "AddGauge" /\ ~check_if_exists(st, e.msg.gauge_addr))
                   => After(st, e).err = "Ok"

\* the votes with a valid ratio of voters that have a record for the gauge
RecordedVotes(s, t) ==
  {v \in VoteCalls(t) : PriorOf(s, v) # None /\ v.msg.ratio <= MaxRatio}

\* after UpdateConfig call c has supplied a vote delay, a vote of a voter with
\* a record for the gauge is VoteTooOften exactly when its period is less than
\* that delay after the period of the record
DelayApplies(s, c) ==
  LET st == After(s, c).st
  IN c.msg.user_vote_delay # None =>
       \A t \in BlockTimesFrom(c.env.time) : \A v \in RecordedVotes(s, t) :
         After(st, v).err = "VoteTooOften"
           <=> CallPeriod(s, v) < unwrap(PriorOf(s, v)).vote_period
                                    + c.msg.user_vote_delay[1]

\* C33: an UpdateConfig by the owner changes exactly the fields supplied
\* (owner, anchor_token, anchor_voting_escrow, user_vote_delay) and leaves the
\* omitted ones, period_duration, the registry, the checkpoints, the schedules
\* and the votes unchanged; after it has changed the owner, the next
\* owner-gated call of the previous owner fails with Unauthorized and that of
\* the new owner passes; a changed user_vote_delay applies to the next
\* VoteTooOften check against the vote records already stored.
C33_UpdateConfig ==
  \A c \in OwnerConfigCalls(Store, block_time) :
    /\ UpdatesSupplied(Store, c)
    /\ (c.msg.anchor_token = None /\ c.msg.anchor_voting_escrow = None) =>
         OwnerHandover(Store, c) /\ DelayApplies(Store, c)

\* the owner hands the contract over and supplies a longer vote delay, with a
\* gauge and a vote record in the storage: the vote that was allowed is now
\* VoteTooOften, the old owner is Unauthorized and the new owner adds a gauge
C33_Witness ==
  \E c \in OwnerConfigCalls(Store, block_time) :
    LET st == After(Store, c).st
    IN /\ c.msg.anchor_token = None /\ c.msg.anchor_voting_escrow = None
       /\ st.config.owner # config.owner
       /\ st.config.user_vote_delay > config.user_vote_delay
       /\ Gauges(Store) # {}
       /\ \E v \in RecordedVotes(Store, block_time) :
            /\ After(Store, v).err = "Ok"
            /\ After(st, v).err = "VoteTooOften"
       /\ \E e \in AdminCalls(block_time) :
            /\ e.msg.type = "AddGauge"
            /\ After(Store, e).err = "Ok"
            /\ After(st, e).err = "Unauthorized"
       /\ \E e \in AdminCalls(block_time) :
            /\ e.msg.type = "AddGauge"
            /\ After(Store, e).err = "Unauthorized"
            /\ After(st, e).err = "Ok"
       /\ UpdatesSupplied(Store, c)

-----------------------------------------------------------------------------
(* C34 *)

\* the rejection conditions of vote call c on storage s
RatioInvalid(c) == c.msg.ratio > MaxRatio
RatioInsufficient(s, c) == RatioAfter(s, c) > MaxRatio
LockExpired(s, c) == c.env.unlock_period <= CallPeriod(s, c)
GaugeMissing(s, c) == ~check_if_exists(s, c.msg.gauge_addr)
GaugeAhead(s, c) ==
  /\ check_if_exists(s, c.msg.gauge_addr)
  /\ CallPeriod(s, c) < LatestPeriod(s, c.msg.gauge_addr)

\* the number of the conditions checked before the catch-up that hold
ChecksFailed(s, c) ==
  (IF RatioInvalid(c) THEN 1 ELSE 0) + (IF WithinVoteDelay(s, c) THEN 1 ELSE 0)
    + (IF RatioInsufficient(s, c) THEN 1 ELSE 0) + (IF LockExpired(s, c) THEN 1 ELSE 0)

\* the first of the errors, in the order of the checks, whose condition holds
FirstRejection(s, c) ==
  IF RatioInvalid(c) THEN "InvalidVotingRatio"
  ELSE IF WithinVoteDelay(s, c) THEN "VoteTooOften"
  ELSE IF RatioInsufficient(s, c) THEN "InsufficientVotingRatio"
  ELSE IF LockExpired(s, c) THEN "LockExpiresTooSoon"
  ELSE IF GaugeMissing(s, c) THEN "GaugeNotFound"
  ELSE IF GaugeAhead(s, c) THEN "TimestampError"
  ELSE "Ok"

GaugeErrors == {"GaugeNotFound", "TimestampError"}

\* every vote at every block time on storage s is rejected with the first
\* error whose condition holds; the errors of the catch-up come after the
\* computation of the slope, so they are reported for a slope that fits
RejectionOrder(s) ==
  \A t \in BlockTimes : \A c \in VoteCalls(t) :
    LET first == FirstRejection(s, c)
    IN /\ first \notin GaugeErrors \cup {"Ok"} => After(s, c).err = first
       /\ (first \in GaugeErrors /\ ~SlopeOverflows(c)) => After(s, c).err = first
       /\ After(s, c).err \in GaugeErrors => ChecksFailed(s, c) = 0

\* the storage now and the storages one successful vote later
VotedStores ==
  {Store} \cup {After(Store, d).st : d \in SuccessfulVotes(Store, block_time)}

\* C34: when several rejection conditions of VoteForGaugeWeight hold at once,
\* the error reported is the first in the order InvalidVotingRatio,
\* VoteTooOften, InsufficientVotingRatio, LockExpiresTooSoon, and only then
\* the errors of the catch-up of the gauge (GaugeNotFound, TimestampError).
C34_RejectionOrder == \A s \in VotedStores : RejectionOrder(s)

\* a voter has allocated the whole ratio to two gauges: a re-vote within the
\* delay that would exceed the whole ratio, with an expired lock, is
\* VoteTooOften, and with an invalid ratio it is InvalidVotingRatio; a vote
\* with an expired lock on a gauge checkpointed ahead of the block of the vote
\* is LockExpiresTooSoon
C34_Witness ==
  /\ \E s \in VotedStores : \E c \in VoteCalls(block_time) :
       /\ WithinVoteDelay(s, c) /\ RatioInsufficient(s, c) /\ LockExpired(s, c)
       /\ ~RatioInvalid(c)
       /\ After(s, c).err = "VoteTooOften"
  /\ \E c \in VoteCalls(block_time) :
       /\ RatioInvalid(c) /\ WithinVoteDelay(Store, c)
       /\ After(Store, c).err = "InvalidVotingRatio"
  /\ \E t \in BlockTimes : \E c \in VoteCalls(t) :
       /\ GaugeAhead(Store, c) /\ LockExpired(Store, c)
       /\ ChecksFailed(Store, c) = 1
       /\ After(Store, c).err = "LockExpiresTooSoon"

====
